---- MODULE Spec2Model ----
(***************************************************************************)
(* zip-json: the archive engine (Archiver.archive, collectFiles,           *)
(* validatePatterns, Compressor) and the extraction engine                 *)
(* (Extractor.extract) over a model of the filesystem.                     *)
(*                                                                         *)
(* JavaScript strings are sequences of character codes (ASCII), Buffers    *)
(* are sequences of bytes; a path is the string the program holds, split   *)
(* and normalised where node:path does it.                                 *)
(***************************************************************************)
EXTENDS Integers, Sequences, FiniteSets, TLC

VARIABLES
  fs,        \* the filesystem: absolute normalised path -> node
  zipCall,   \* per call id: the state of an Archiver.archive call
  unzipCall, \* per call id: the state of an Extractor.extract call
  codecCall  \* the state of a direct use of the Compressor

vars == <<fs, zipCall, unzipCall, codecCall>>

(***************************************************************************)
(* Bounds of the model                                                     *)
(***************************************************************************)
\* number of extra regular files f01, f02, ... in the large source trees
MaxBulk == 9
\* longest patterns array handed to validatePatterns
MaxPatterns == 2
\* longest meta.files list of a hand-made archive
MaxEntries == 2

(***************************************************************************)
(* Strings                                                                 *)
(***************************************************************************)
Slash == <<47>>
DotDot == <<46, 46>>
Dot == <<46>>
Star == <<42>>
StarStar == <<42, 42>>

Max(a, b) == IF a > b THEN a ELSE b
Min(a, b) == IF a < b THEN a ELSE b

\* Array.prototype.join on strings
RECURSIVE JoinWith(_, _)
JoinWith(parts, sep) ==
  IF parts = <<>> THEN <<>>
  ELSE IF Len(parts) = 1 THEN parts[1]
  ELSE parts[1] \o sep \o JoinWith(Tail(parts), sep)

\* String.prototype.split on a one-character separator
RECURSIVE Split(_, _)
Split(s, c) ==
  IF \A i \in 1..Len(s) : s[i] # c THEN <<s>>
  ELSE LET k == CHOOSE i \in 1..Len(s) :
                   s[i] = c /\ \A j \in 1..(i - 1) : s[j] # c
       IN <<SubSeq(s, 1, k - 1)>> \o Split(SubSeq(s, k + 1, Len(s)), c)

StartsWith(s, p) == Len(s) >= Len(p) /\ SubSeq(s, 1, Len(p)) = p
EndsWith(s, p) == Len(s) >= Len(p) /\ SubSeq(s, Len(s) - Len(p) + 1, Len(s)) = p

\* the default comparison of Array.prototype.sort: by code units
RECURSIVE LexLess(_, _)
LexLess(a, b) ==
  IF b = <<>> THEN FALSE
  ELSE IF a = <<>> THEN TRUE
  ELSE IF a[1] # b[1] THEN a[1] < b[1]
  ELSE LexLess(Tail(a), Tail(b))

\* Array.from(set).sort()
RECURSIVE SortStrings(_)
SortStrings(S) ==
  IF S = {} THEN <<>>
  ELSE LET m == CHOOSE x \in S : \A y \in S \ {x} : LexLess(x, y)
       IN <<m>> \o SortStrings(S \ {m})

\* String.prototype.trim() === ""
IsWhitespace(c) == c \in {32, 9, 10, 13}
TrimIsEmpty(s) == \A i \in 1..Len(s) : IsWhitespace(s[i])

(***************************************************************************)
(* Base64 (Buffer.toString("base64"), Buffer.from(s, "base64"))            *)
(***************************************************************************)
\* the character of a 6-bit value
B64Char(v) ==
  IF v < 26 THEN 65 + v
  ELSE IF v < 52 THEN 97 + (v - 26)
  ELSE IF v < 62 THEN 48 + (v - 52)
  ELSE IF v = 62 THEN 43 ELSE 47

\* the 6-bit value of a character, -1 when it is outside both alphabets
\* (the decoder also reads the URL-safe '-' and '_')
B64Val(c) ==
  IF c >= 65 /\ c <= 90 THEN c - 65
  ELSE IF c >= 97 /\ c <= 122 THEN c - 97 + 26
  ELSE IF c >= 48 /\ c <= 57 THEN c - 48 + 52
  ELSE IF c = 43 \/ c = 45 THEN 62
  ELSE IF c = 47 \/ c = 95 THEN 63
  ELSE -1

\* one group of up to three bytes -> four characters ('=', 61, pads)
B64Group(g) ==
  LET b1 == g[1]
      b2 == IF Len(g) >= 2 THEN g[2] ELSE 0
      b3 == IF Len(g) >= 3 THEN g[3] ELSE 0
      n  == b1 * 65536 + b2 * 256 + b3
  IN <<B64Char(n \div 262144),
       B64Char((n \div 4096) % 64),
       IF Len(g) >= 2 THEN B64Char((n \div 64) % 64) ELSE 61,
       IF Len(g) >= 3 THEN B64Char(n % 64) ELSE 61>>

\* the i-th character is a character of the group the i-th character's
\* three bytes are in
Base64Encode(bytes) ==
  IF bytes = <<>> THEN <<>>
  ELSE LET n == Len(bytes)
       IN [i \in 1..(4 * ((n + 2) \div 3)) |->
             LET g == (i - 1) \div 4
             IN B64Group(SubSeq(bytes, 3 * g + 1, Min(3 * g + 3, n)))[((i - 1) % 4) + 1]]

\* the characters the decoder reads: it stops at the first '=' and skips
\* every character outside the alphabets
B64Significant(s) ==
  LET stop == IF \E i \in 1..Len(s) : s[i] = 61
              THEN (CHOOSE i \in 1..Len(s) :
                      s[i] = 61 /\ \A j \in 1..(i - 1) : s[j] # 61) - 1
              ELSE Len(s)
      IsAlpha(c) == B64Val(c) >= 0
  IN SelectSeq(SubSeq(s, 1, stop), IsAlpha)

\* one group of up to four characters -> up to three bytes
B64Ungroup(q) ==
  LET v(i) == IF Len(q) >= i THEN B64Val(q[i]) ELSE 0
      n == v(1) * 262144 + v(2) * 4096 + v(3) * 64 + v(4)
      all == <<n \div 65536, (n \div 256) % 256, n % 256>>
  IN SubSeq(all, 1, Len(q) - 1)

\* the bytes of all groups; a last group of one character gives no byte
B64Bytes(q) ==
  LET n == Len(q)
      count == 3 * (n \div 4) + Max(0, (n % 4) - 1)
  IN IF count = 0 THEN <<>>
     ELSE [i \in 1..count |->
             LET g == (i - 1) \div 3
             IN B64Ungroup(SubSeq(q, 4 * g + 1, Min(4 * g + 4, n)))[((i - 1) % 3) + 1]]

\* Buffer.from(s, "base64"): never fails
Base64Decode(s) == B64Bytes(B64Significant(s))

(***************************************************************************)
(* gzip / gunzip: the container of node:zlib, a header, the data as a     *)
(* stored block, and a trailer holding a checksum and the length           *)
(***************************************************************************)
GzipHeader == <<31, 139, 8>>

RECURSIVE SumBytes(_)
SumBytes(b) ==
  IF b = <<>> THEN 0
  ELSE IF Len(b) = 1 THEN b[1]
  ELSE LET h == Len(b) \div 2
       IN SumBytes(SubSeq(b, 1, h)) + SumBytes(SubSeq(b, h + 1, Len(b)))

GzipTrailer(data) == <<SumBytes(data) % 256, Len(data) % 256>>

Gzip(data) == GzipHeader \o data \o GzipTrailer(data)

\* [ok, data]: fails on a wrong header, a truncated stream or a wrong trailer
Gunzip(buf) ==
  LET n == Len(buf)
      body == SubSeq(buf, Len(GzipHeader) + 1, n - 2)
  IN IF n >= Len(GzipHeader) + 2
        /\ SubSeq(buf, 1, Len(GzipHeader)) = GzipHeader
        /\ SubSeq(buf, n - 1, n) = GzipTrailer(body)
     THEN [ok |-> TRUE, data |-> body]
     ELSE [ok |-> FALSE, data |-> <<>>]

(***************************************************************************)
(* Errors                                                                  *)
(***************************************************************************)
NoError == [name |-> "none", kind |-> "", index |-> -1, got |-> "", path |-> <<>>]
MkError(name, kind, index, got, path) ==
  [name |-> name, kind |-> kind, index |-> index, got |-> got, path |-> path]

FileNotFoundError(path) == MkError("FileNotFoundError", "", -1, "", path)
PermissionError(path, operation) == MkError("PermissionError", operation, -1, "", path)
InvalidArchiveError(message) == MkError("InvalidArchiveError", message, -1, "", <<>>)
OverwriteError(path) == MkError("OverwriteError", "", -1, "", path)
CompressionError(message) == MkError("CompressionError", message, -1, "", <<>>)
\* a bare Error of the runtime or of node:fs, told apart by its code
SystemError(code, path) == MkError("Error", code, -1, "", path)
\* what a throwing progress callback throws
CallbackFault == MkError("CallbackFault", "", -1, "", <<>>)

(***************************************************************************)
(* Compressor                                                              *)
(***************************************************************************)
\* a string is a sequence of UTF-16 code units; surrogates
IsHigh(u) == u >= 55296 /\ u <= 56319
IsLow(u) == u >= 56320 /\ u <= 57343

\* the bytes of U+FFFD, which stand for a surrogate without its partner
Utf8Replacement == <<239, 191, 189>>

Utf8OfCodePoint(cp) ==
  IF cp < 128 THEN <<cp>>
  ELSE IF cp < 2048 THEN <<192 + (cp \div 64), 128 + (cp % 64)>>
  ELSE IF cp < 65536
  THEN <<224 + (cp \div 4096), 128 + ((cp \div 64) % 64), 128 + (cp % 64)>>
  ELSE <<240 + (cp \div 262144), 128 + ((cp \div 4096) % 64),
         128 + ((cp \div 64) % 64), 128 + (cp % 64)>>

\* the bytes the i-th code unit gives: a high surrogate takes the low one
\* that follows it, which then gives none
Utf8OfUnit(s, i) ==
  LET u == s[i]
  IN IF IsHigh(u)
     THEN IF i < Len(s) /\ IsLow(s[i + 1])
          THEN Utf8OfCodePoint(65536 + ((u - 55296) * 1024) + (s[i + 1] - 56320))
          ELSE Utf8Replacement
     ELSE IF IsLow(u)
     THEN IF i > 1 /\ IsHigh(s[i - 1]) THEN <<>> ELSE Utf8Replacement
     ELSE Utf8OfCodePoint(u)

RECURSIVE Utf8Range(_, _, _)
Utf8Range(s, lo, hi) ==
  IF lo > hi THEN <<>>
  ELSE IF lo = hi THEN Utf8OfUnit(s, lo)
  ELSE LET m == (lo + hi) \div 2
       IN Utf8Range(s, lo, m) \o Utf8Range(s, m + 1, hi)

\* Buffer.from(data, "utf-8")
Utf8Encode(s) ==
  IF \A i \in 1..Len(s) : s[i] < 128 THEN s ELSE Utf8Range(s, 1, Len(s))

IsCont(b) == b >= 128 /\ b <= 191

\* the code units of the bytes from position i on; every maximal invalid
\* part becomes U+FFFD
RECURSIVE Utf8DecodeFrom(_, _)
Utf8DecodeFrom(b, i) ==
  IF i > Len(b) THEN <<>>
  ELSE LET b0 == b[i]
           At(k) == IF i + k <= Len(b) THEN b[i + k] ELSE -1
           lo2 == IF b0 = 224 THEN 160 ELSE IF b0 = 240 THEN 144 ELSE 128
           hi2 == IF b0 = 237 THEN 159 ELSE IF b0 = 244 THEN 143 ELSE 191
           ok2 == At(1) >= lo2 /\ At(1) <= hi2
           ok3 == IsCont(At(2))
           ok4 == IsCont(At(3))
           cp4 == ((b0 - 240) * 262144) + ((At(1) - 128) * 4096)
                    + ((At(2) - 128) * 64) + (At(3) - 128)
       IN IF b0 < 128 THEN <<b0>> \o Utf8DecodeFrom(b, i + 1)
          ELSE IF b0 >= 194 /\ b0 <= 223
          THEN IF ~IsCont(At(1)) THEN <<65533>> \o Utf8DecodeFrom(b, i + 1)
               ELSE <<((b0 - 192) * 64) + (At(1) - 128)>> \o Utf8DecodeFrom(b, i + 2)
          ELSE IF b0 >= 224 /\ b0 <= 239
          THEN IF ~ok2 THEN <<65533>> \o Utf8DecodeFrom(b, i + 1)
               ELSE IF ~ok3 THEN <<65533>> \o Utf8DecodeFrom(b, i + 2)
               ELSE <<((b0 - 224) * 4096) + ((At(1) - 128) * 64) + (At(2) - 128)>>
                      \o Utf8DecodeFrom(b, i + 3)
          ELSE IF b0 >= 240 /\ b0 <= 244
          THEN IF ~ok2 THEN <<65533>> \o Utf8DecodeFrom(b, i + 1)
               ELSE IF ~ok3 THEN <<65533>> \o Utf8DecodeFrom(b, i + 2)
               ELSE IF ~ok4 THEN <<65533>> \o Utf8DecodeFrom(b, i + 3)
               ELSE <<55296 + ((cp4 - 65536) \div 1024), 56320 + ((cp4 - 65536) % 1024)>>
                      \o Utf8DecodeFrom(b, i + 4)
          ELSE <<65533>> \o Utf8DecodeFrom(b, i + 1)

\* buffer.toString("utf-8"): never fails
Utf8Decode(b) ==
  IF \A i \in 1..Len(b) : b[i] < 128 THEN b ELSE Utf8DecodeFrom(b, 1)

\* compress(data): utf-8 bytes, gzip, base64
Compress(data) ==
  [ok |-> TRUE, value |-> Base64Encode(Gzip(Utf8Encode(data))), error |-> NoError]

\* decompress(base64Data): base64 bytes, gunzip, utf-8 text
Decompress(base64Data) ==
  LET r == Gunzip(Base64Decode(base64Data))
  IN IF r.ok
     THEN [ok |-> TRUE, value |-> Utf8Decode(r.data), error |-> NoError]
     ELSE [ok |-> FALSE, value |-> <<>>,
           error |-> CompressionError("Failed to decompress data")]

(***************************************************************************)
(* JSON.stringify / JSON.parse of the payload map.  A JavaScript object   *)
(* with string values is the sequence of its members in insertion order.  *)
(* The parser reads the texts stringify writes and the literal null;      *)
(* every other text of the model's inputs is a syntax error.               *)
(***************************************************************************)
Quote == <<34>>
JsonNull == <<110, 117, 108, 108>>

ObjHas(obj, key) == \E i \in 1..Len(obj) : obj[i].key = key
\* obj[key]: the last member of that key
ObjGet(obj, key) ==
  LET i == CHOOSE i \in 1..Len(obj) :
             obj[i].key = key /\ \A j \in (i + 1)..Len(obj) : obj[j].key # key
  IN obj[i].value
\* obj[key] = value
ObjSet(obj, key, value) ==
  IF ObjHas(obj, key)
  THEN [i \in 1..Len(obj) |->
          IF obj[i].key = key THEN [key |-> key, value |-> value] ELSE obj[i]]
  ELSE Append(obj, [key |-> key, value |-> value])

JsonMember(m) == Quote \o m.key \o Quote \o <<58>> \o Quote \o m.value \o Quote

JSONStringify(obj) ==
  <<123>> \o JoinWith([i \in 1..Len(obj) |-> JsonMember(obj[i])], <<44>>) \o <<125>>

\* a string literal starting at position i
ParseString(t, i) ==
  IF i <= Len(t) /\ t[i] = 34 /\ \E j \in (i + 1)..Len(t) : t[j] = 34
  THEN LET j == CHOOSE j \in (i + 1)..Len(t) :
                   t[j] = 34 /\ \A k \in (i + 1)..(j - 1) : t[k] # 34
       IN [ok |-> TRUE, val |-> SubSeq(t, i + 1, j - 1), next |-> j + 1]
  ELSE [ok |-> FALSE, val |-> <<>>, next |-> i]

JsonFail == [ok |-> FALSE, kind |-> "", members |-> <<>>]

RECURSIVE ParseMembers(_, _, _)
ParseMembers(t, i, acc) ==
  LET k == ParseString(t, i)
      v == ParseString(t, k.next + 1)
      acc2 == Append(acc, [key |-> k.val, value |-> v.val])
  IN IF ~k.ok \/ k.next > Len(t) \/ t[k.next] # 58 THEN JsonFail
     ELSE IF ~v.ok \/ v.next > Len(t) THEN JsonFail
     ELSE IF t[v.next] = 125
          THEN IF v.next = Len(t)
               THEN [ok |-> TRUE, kind |-> "object", members |-> acc2]
               ELSE JsonFail
     ELSE IF t[v.next] = 44 THEN ParseMembers(t, v.next + 1, acc2)
     ELSE JsonFail

JSONParse(t) ==
  IF t = JsonNull THEN [ok |-> TRUE, kind |-> "null", members |-> <<>>]
  ELSE IF t = <<123, 125>> THEN [ok |-> TRUE, kind |-> "object", members |-> <<>>]
  ELSE IF Len(t) >= 2 /\ t[1] = 123 THEN ParseMembers(t, 2, <<>>)
  ELSE JsonFail

(***************************************************************************)
(* node:path (posix)                                                       *)
(***************************************************************************)
NonEmpty(s) == s # <<>>

RECURSIVE NormSegs(_, _, _)
NormSegs(parts, acc, abs) ==
  IF parts = <<>> THEN acc
  ELSE LET h == parts[1]
       IN IF h = <<>> \/ h = Dot THEN NormSegs(Tail(parts), acc, abs)
          ELSE IF h = DotDot
               THEN IF acc # <<>> /\ acc[Len(acc)] # DotDot
                    THEN NormSegs(Tail(parts), SubSeq(acc, 1, Len(acc) - 1), abs)
                    ELSE IF abs THEN NormSegs(Tail(parts), acc, abs)
                    ELSE NormSegs(Tail(parts), Append(acc, h), abs)
          ELSE NormSegs(Tail(parts), Append(acc, h), abs)

\* path.normalize
Normalize(p) ==
  LET abs == StartsWith(p, Slash)
      body == JoinWith(NormSegs(Split(p, 47), <<>>, abs), Slash)
  IN IF abs THEN Slash \o body
     ELSE IF body = <<>> THEN Dot ELSE body

\* path.join(a, b)
PathJoin(a, b) ==
  IF a = <<>> THEN Normalize(b)
  ELSE IF b = <<>> THEN Normalize(a)
  ELSE Normalize(a \o Slash \o b)

\* the segments of an absolute normalised path
Segs(p) == SelectSeq(Split(p, 47), NonEmpty)
PathOf(segs) == Slash \o JoinWith(segs, Slash)

\* path.dirname of a normalised path
Dirname(p) ==
  LET s == Segs(p)
      up == SubSeq(s, 1, Len(s) - 1)
  IN IF StartsWith(p, Slash) THEN PathOf(up)
     ELSE IF up = <<>> THEN Dot ELSE JoinWith(up, Slash)

\* path.relative(from, to), both absolute and normalised
Relative(from, to) ==
  LET f == Segs(from)
      t == Segs(to)
      Common(n) == n <= Len(f) /\ n <= Len(t) /\ SubSeq(f, 1, n) = SubSeq(t, 1, n)
      c == CHOOSE n \in 0..Min(Len(f), Len(t)) :
             Common(n) /\ \A m \in (n + 1)..Min(Len(f), Len(t)) : ~Common(m)
  IN JoinWith([i \in 1..(Len(f) - c) |-> DotDot] \o SubSeq(t, c + 1, Len(t)), Slash)

(***************************************************************************)
(* src/utils/file.ts                                                       *)
(***************************************************************************)
\* joinPath(...parts)
joinPath(a, b) == PathJoin(a, b)
\* getDirName(filePath)
getDirName(filePath) == Dirname(filePath)
\* makeRelativePath(filePath, baseDir); the replace of "\\" changes nothing
\* in a posix path
makeRelativePath(filePath, baseDir) == Relative(baseDir, filePath)

(***************************************************************************)
(* The filesystem (node:fs).  A node is a directory or a regular file     *)
(* with its bytes; perm holds the permission bits.                         *)
(***************************************************************************)
\* permission bits of a new file and of a new directory (umask 022)
NewFilePerm == 420
NewDirPerm == 493
\* st_mode type bits
S_IFREG == 32768
S_IFDIR == 16384
\* st_size of a directory
DirStatSize == 4096

\* mine: whether the node belongs to the user of the process
DirNode(perm) == [kind |-> "dir", data |-> <<>>, perm |-> perm, mine |-> TRUE]
FileNode(data, perm) == [kind |-> "file", data |-> data, perm |-> perm, mine |-> TRUE]
\* a file of another user that the process may write
ForeignFileNode(data, perm) == [FileNode(data, perm) EXCEPT !.mine = FALSE]

Root == Slash
IsDir(f, p) == p \in DOMAIN f /\ f[p].kind = "dir"
IsFile(f, p) == p \in DOMAIN f /\ f[p].kind = "file"

\* existsSync(filePath)
fileExists(f, filePath) == filePath \in DOMAIN f

\* the path and its ancestors below the root, top down
Prefixes(p) == [i \in 1..Len(Segs(p)) |-> PathOf(SubSeq(Segs(p), 1, i))]

FsOk(f) == [ok |-> TRUE, fs |-> f, error |-> NoError]
FsFail(f, e) == [ok |-> FALSE, fs |-> f, error |-> e]

\* mkdir(p, { recursive: true })
Mkdirp(f, p) ==
  LET pre == Prefixes(p)
      new == {pre[i] : i \in 1..Len(pre)} \ DOMAIN f
  IN IF \E i \in 1..Len(pre) : IsFile(f, pre[i])
     THEN FsFail(f, SystemError(IF IsFile(f, p) THEN "EEXIST" ELSE "ENOTDIR", p))
     ELSE FsOk([q \in DOMAIN f \cup new |->
                  IF q \in DOMAIN f THEN f[q] ELSE DirNode(NewDirPerm)])

\* writeFile(p, content)
WriteFile(f, p, content) ==
  IF IsDir(f, p) THEN FsFail(f, SystemError("EISDIR", p))
  ELSE IF ~IsDir(f, Dirname(p))
  THEN FsFail(f, SystemError(IF Dirname(p) \in DOMAIN f THEN "ENOTDIR" ELSE "ENOENT", p))
  ELSE FsOk([q \in DOMAIN f \cup {p} |->
               IF q = p
               THEN IF p \in DOMAIN f THEN [f[p] EXCEPT !.data = content]
                    ELSE FileNode(content, NewFilePerm)
               ELSE f[q]])

\* the owner may read
Readable(perm) == (perm \div 256) % 2 = 1

\* readFileContent(filePath): readFile with ENOENT and EACCES mapped
readFileContent(f, filePath) ==
  IF filePath \notin DOMAIN f
  THEN [ok |-> FALSE, data |-> <<>>, error |-> FileNotFoundError(filePath)]
  ELSE IF f[filePath].kind = "dir"
  THEN [ok |-> FALSE, data |-> <<>>, error |-> SystemError("EISDIR", filePath)]
  ELSE IF ~Readable(f[filePath].perm)
  THEN [ok |-> FALSE, data |-> <<>>, error |-> PermissionError(filePath, "read")]
  ELSE [ok |-> TRUE, data |-> f[filePath].data, error |-> NoError]

\* writeFileContent(filePath, content): mkdir of the parent, then writeFile
writeFileContent(f, filePath, content) ==
  LET m == Mkdirp(f, Dirname(filePath))
  IN IF ~m.ok THEN m ELSE WriteFile(m.fs, filePath, content)

\* setFilePermissions(filePath, mode): chmod keeps the permission bits and
\* is refused for the file of another user; only EACCES is mapped
setFilePermissions(f, filePath, mode) ==
  IF filePath \notin DOMAIN f THEN FsFail(f, SystemError("ENOENT", filePath))
  ELSE IF ~f[filePath].mine THEN FsFail(f, SystemError("EPERM", filePath))
  ELSE FsOk([f EXCEPT ![filePath].perm = mode % 4096])

\* a FileEntry; modifiedAt is left out, nothing reads it
Entry(path, size, mode, isDirectory) ==
  [path |-> path, size |-> size, mode |-> mode, isDirectory |-> isDirectory]

\* getFileStats(filePath)
getFileStats(f, filePath) ==
  IF filePath \notin DOMAIN f
  THEN [ok |-> FALSE, entry |-> Entry(filePath, 0, 0, FALSE),
        error |-> FileNotFoundError(filePath)]
  ELSE LET n == f[filePath]
       IN [ok |-> TRUE,
           entry |-> IF n.kind = "dir"
                     THEN Entry(filePath, DirStatSize, S_IFDIR + n.perm, TRUE)
                     ELSE Entry(filePath, Len(n.data), S_IFREG + n.perm, FALSE),
           error |-> NoError]

(***************************************************************************)
(* glob: the patterns of the model are made of the segments **, *,        *)
(* *suffix and literal names                                               *)
(***************************************************************************)
SegMatch(ps, s) ==
  IF ps = Star THEN TRUE
  ELSE IF StartsWith(ps, Star) THEN EndsWith(s, Tail(ps))
  ELSE ps = s

RECURSIVE GlobMatch(_, _)
GlobMatch(pat, path) ==
  IF pat = <<>> THEN path = <<>>
  ELSE IF pat[1] = StarStar
  THEN GlobMatch(Tail(pat), path) \/ (path # <<>> /\ GlobMatch(pat, Tail(path)))
  ELSE path # <<>> /\ SegMatch(pat[1], path[1]) /\ GlobMatch(Tail(pat), Tail(path))

\* whether the string pattern matches the path relative to cwd
Matches(pattern, rel) == GlobMatch(Split(pattern, 47), Split(rel, 47))

\* glob(pattern, { cwd, ignore, absolute: true, dot: true }); a pattern that
\* begins with "../" walks up from cwd
Glob(f, pattern, cwd, ignore) ==
  {p \in DOMAIN f :
     /\ StartsWith(p, cwd \o Slash) \/ StartsWith(pattern, DotDot \o Slash)
     /\ Matches(pattern, Relative(cwd, p))
     /\ \A i \in 1..Len(ignore) : ~Matches(ignore[i], Relative(cwd, p))}

(***************************************************************************)
(* src/utils/validation.ts                                                 *)
(***************************************************************************)
\* a JavaScript value: its typeof ("array" for an array), its text when it
\* is a string, its items when it is an array
JsString(s) == [t |-> "string", s |-> s]
JsOther(t) == [t |-> t, s |-> <<>>]
JsArray(items) == [t |-> "array", items |-> items]
JsNonArray(t) == [t |-> t, items |-> <<>>]

ValidationError(kind, index, got) == MkError("Error", kind, index, got, <<>>)

\* mutant: the string is compared without trim()
PatternDefectNoTrim(pattern) ==
  IF pattern.t # "string" THEN "must be a string"
  ELSE IF pattern.s = <<>> THEN "must be a non-empty string"
  ELSE ""

\* the defect of one element, "" when it has none
PatternDefect(pattern) ==
  IF pattern.t # "string" THEN "must be a string"
  ELSE IF TrimIsEmpty(pattern.s) THEN "must be a non-empty string"
  ELSE ""

\* validatePatterns(patterns): the error it throws, NoError when it returns
validatePatterns(patterns) ==
  IF patterns.t # "array"
  THEN ValidationError("patterns must be an array of strings", -1, "")
  ELSE LET bad == {i \in 1..Len(patterns.items) : PatternDefect(patterns.items[i]) # ""}
       IN IF bad = {} THEN NoError
          ELSE LET i == CHOOSE i \in bad : \A j \in bad : i <= j
                   e == patterns.items[i]
               IN ValidationError(PatternDefect(e), i - 1,
                                  IF e.t # "string" THEN e.t ELSE "")

(***************************************************************************)
(* src/utils/glob.ts                                                       *)
(***************************************************************************)
\* "**/node_modules/**", "**/.git/**", "**/.DS_Store", "**/Thumbs.db",
\* "**/*.tmp", "**/*.temp"
defaultIgnores ==
  << <<42,42,47,110,111,100,101,95,109,111,100,117,108,101,115,47,42,42>>,
     <<42,42,47,46,103,105,116,47,42,42>>,
     <<42,42,47,46,68,83,95,83,116,111,114,101>>,
     <<42,42,47,84,104,117,109,98,115,46,100,98>>,
     <<42,42,47,42,46,116,109,112>>,
     <<42,42,47,42,46,116,101,109,112>> >>

\* mutant: the default ignores are dropped
addDefaultIgnoresDropped(ignorePatterns) == ignorePatterns

addDefaultIgnores(ignorePatterns) == defaultIgnores \o ignorePatterns

\* the set the patterns' matches accumulate into
AllFiles(f, items, resolvedBaseDir, ignore) ==
  UNION {Glob(f, items[i].s, resolvedBaseDir, ignore) : i \in 1..Len(items)}

\* glob returns its matches in an order of its own (the order the
\* directories are read in): the ascending or the descending one here
GlobOrders == {"ascending", "descending"}

Reverse(s) == IF s = <<>> THEN <<>> ELSE [i \in 1..Len(s) |-> s[Len(s) + 1 - i]]

\* Array.from(allFiles): the members of the Set in insertion order
ArrayFrom(S, order) ==
  IF order = "ascending" THEN SortStrings(S) ELSE Reverse(SortStrings(S))

\* mutant: the array is not sorted
UnsortedPaths(listing) == listing

\* mutant: the array is sorted the other way round
SortedPathsDescending(listing) == Reverse(SortStrings({listing[i] : i \in 1..Len(listing)}))

\* Array.from(allFiles).sort()
SortedPaths(listing) == SortStrings({listing[i] : i \in 1..Len(listing)})

\* the stat loop: a path whose stat fails is dropped
RECURSIVE StatAll(_, _, _)
StatAll(f, paths, resolvedBaseDir) ==
  IF paths = <<>> THEN <<>>
  ELSE LET st == getFileStats(f, paths[1])
           rest == StatAll(f, Tail(paths), resolvedBaseDir)
       IN IF st.ok
          THEN <<[st.entry EXCEPT !.path = makeRelativePath(paths[1], resolvedBaseDir)]>>
                 \o rest
          ELSE rest

\* collectFiles(patterns, { baseDir, ignore })
collectFiles(f, patterns, baseDir, ignore, order) ==
  LET e == validatePatterns(patterns)
      resolvedBaseDir == Normalize(baseDir)
  IN IF e # NoError THEN [ok |-> FALSE, files |-> <<>>, error |-> e]
     ELSE IF Len(patterns.items) = 0 THEN [ok |-> TRUE, files |-> <<>>, error |-> NoError]
     ELSE [ok |-> TRUE,
           files |-> StatAll(f, SortedPaths(ArrayFrom(AllFiles(f, patterns.items,
                                                                  resolvedBaseDir, ignore),
                                                         order)),
                             resolvedBaseDir),
           error |-> NoError]

(***************************************************************************)
(* Progress reporting                                                      *)
(***************************************************************************)
\* the callback is invoked when processedFiles % ProgressEvery === 0
ProgressEvery == 10
\* the callbacks of the model throw on their throwAt-th invocation at most
MaxThrowAt == 2
MaxText == 3

\* a JavaScript number that may be fractional: num / den
Num(n) == [num |-> n, den |-> 1]
Ratio(n, d) == [num |-> n, den |-> d]
NumEq(x, n) == x.num = n * x.den

ProgressInfo(type, currentFile, processedFiles, totalFiles, processedBytes, totalBytes, percentage) ==
  [type |-> type, currentFile |-> currentFile, processedFiles |-> processedFiles,
   totalFiles |-> totalFiles, processedBytes |-> processedBytes,
   totalBytes |-> totalBytes, percentage |-> percentage]

\* options.onProgress: absent, or a function that throws on its throwAt-th
\* invocation (never when throwAt = 0)
NoCallback == [present |-> FALSE, throwAt |-> 0]
Callbacks == {NoCallback} \cup {[present |-> TRUE, throwAt |-> k] : k \in 0..MaxThrowAt}

\* whether the invocation that follows the recorded ones throws
Throws(cb, events) == cb.throwAt = Len(events) + 1

\* percentage: totalFiles > 0 ? (processedFiles / totalFiles) * 100 : 0
RunningPercentage(processedFiles, totalFiles) ==
  IF totalFiles > 0 THEN Ratio(processedFiles * 100, totalFiles) ELSE Num(0)

(***************************************************************************)
(* The archive value (ZipJsonData); createdAt is left out, nothing reads  *)
(* it.  A hand-made archive may lack meta, version, a files array or a    *)
(* string blob.                                                            *)
(***************************************************************************)
Version100 == <<49, 46, 48, 46, 48>>
Version200 == <<50, 46, 48, 46, 48>>

Archive(hasMeta, version, filesIsArray, files, totalSize, fileCount, blobIsString, blob) ==
  [hasMeta |-> hasMeta, version |-> version, filesIsArray |-> filesIsArray,
   files |-> files, totalSize |-> totalSize, fileCount |-> fileCount,
   blobIsString |-> blobIsString, blob |-> blob]

NoArchive == Archive(FALSE, JsOther("undefined"), FALSE, <<>>, 0, 0, FALSE, <<>>)

\* mutant: the empty archive carries the compressed text of an empty map
createEmptyArchivePacked ==
  Archive(TRUE, JsString(Version100), TRUE, <<>>, 0, 0, TRUE, Compress(<<123, 125>>).value)

\* createEmptyArchive()
createEmptyArchive == Archive(TRUE, JsString(Version100), TRUE, <<>>, 0, 0, TRUE, <<>>)

(***************************************************************************)
(* Calls                                                                   *)
(***************************************************************************)
\* a direct use of the Compressor: compress then decompress of its result
\* ("roundtrip"), or decompress of a given text ("decode")
IdleCodec ==
  [pc |-> "idle", op |-> "none", input |-> <<>>, blob |-> <<>>, output |-> <<>>,
   error |-> NoError]

CallIds == {1, 2}
\* the calls of the sequential specifications
SeqCalls == {1}

SrcDir == <<47, 115, 114, 99>>        \* "/src"
OutDir == <<47, 111, 117, 116>>       \* "/out"
PreDir == <<47, 112, 114, 101>>       \* "/pre"

IdleZip ==
  [pc |-> "idle", patterns |-> JsArray(<<>>), baseDir |-> <<>>, ignore |-> <<>>,
   cb |-> NoCallback, files |-> <<>>, i |-> 0,
   fileContents |-> <<>>, fileEntries |-> <<>>, totalSize |-> 0, fileCount |-> 0,
   processedFiles |-> 0, processedBytes |-> 0, totalFiles |-> 0, totalBytes |-> 0,
   events |-> <<>>, result |-> NoArchive, error |-> NoError]

NoOrigin == [built |-> FALSE, patterns |-> JsArray(<<>>), baseDir |-> <<>>, ignore |-> <<>>]

\* an option of a call: given with a value, or left out
Given(value) == [given |-> TRUE, value |-> value]
NotGiven == [given |-> FALSE, value |-> FALSE]
OverwriteOptions == {NotGiven, Given(FALSE), Given(TRUE)}

\* const { overwrite = false } = options
OverwriteOrDefault(option) == IF option.given THEN option.value ELSE FALSE

IdleUnzip ==
  [pc |-> "idle", data |-> NoArchive, origin |-> NoOrigin,
   outputDir |-> <<>>, overwrite |-> FALSE, overwriteGiven |-> FALSE,
   preservePermissions |-> FALSE,
   cb |-> NoCallback, fileContents |-> [kind |-> "", members |-> <<>>], i |-> 0,
   extractedFiles |-> <<>>, totalFiles |-> 0, processedFiles |-> 0,
   processedBytes |-> 0, totalBytes |-> 0, events |-> <<>>,
   before |-> <<>>, log |-> <<>>, result |-> <<>>, error |-> NoError]

(***************************************************************************)
(* Archiver.archive                                                        *)
(***************************************************************************)
\* sum of the sizes of the non-directory entries
RECURSIVE SumFileSizes(_)
SumFileSizes(files) ==
  IF files = <<>> THEN 0
  ELSE (IF files[1].isDirectory THEN 0 ELSE files[1].size) + SumFileSizes(Tail(files))

IsFileEntry(e) == ~e.isDirectory
CountFiles(files) == Len(SelectSeq(files, IsFileEntry))

\* the path archive reads: file.path.startsWith("/") ? file.path : baseDir/file.path
ReadPath(baseDir, path) ==
  Normalize(IF StartsWith(path, Slash) THEN path ELSE baseDir \o Slash \o path)

\* the call after its start: validatePatterns runs before the first await
ZipStarted(patterns, baseDir, ignore, cb) ==
  LET e == validatePatterns(patterns)
      z == [IdleZip EXCEPT !.patterns = patterns, !.baseDir = baseDir,
                           !.ignore = addDefaultIgnores(ignore), !.cb = cb]
  IN IF e # NoError THEN [z EXCEPT !.pc = "failed", !.error = e]
     ELSE [z EXCEPT !.pc = "collect"]

StartZip(c, patterns, baseDir, ignore, cb) ==
  /\ zipCall[c].pc = "idle"
  /\ \A k \in CallIds : unzipCall[k].pc = "idle"
  /\ zipCall' = [zipCall EXCEPT ![c] = ZipStarted(patterns, baseDir, ignore, cb)]
  /\ UNCHANGED <<fs, unzipCall, codecCall>>

\* collectFiles returns; an empty collection returns the empty archive
ZipCollect(c) ==
  /\ zipCall[c].pc = "collect"
  /\ \E order \in GlobOrders :
       LET z == zipCall[c]
           r == collectFiles(fs, z.patterns, z.baseDir, z.ignore, order)
       IN zipCall' = [zipCall EXCEPT ![c] =
            IF Len(r.files) = 0
            THEN [z EXCEPT !.pc = "done", !.result = createEmptyArchive]
            ELSE [z EXCEPT !.pc = "loop", !.files = r.files, !.i = 1,
                           !.totalFiles = CountFiles(r.files),
                           !.totalBytes = SumFileSizes(r.files)]]
  /\ UNCHANGED <<fs, unzipCall, codecCall>>

\* the in-loop report of archive
ZipProgress(z, file, processedFiles, processedBytes) ==
  ProgressInfo("zip", file.path, processedFiles, z.totalFiles, processedBytes,
               z.totalBytes, RunningPercentage(processedFiles, z.totalFiles))

\* mutant: a file whose read failed is entered in the archive all the same
ZipFileStepKeepsFailed(z, f) ==
  LET file == z.files[z.i]
      next == [z EXCEPT !.i = z.i + 1,
                        !.pc = IF z.i + 1 > Len(z.files) THEN "final" ELSE "loop"]
      rd == readFileContent(f, ReadPath(z.baseDir, file.path))
      read == [next EXCEPT !.fileContents = ObjSet(z.fileContents, file.path,
                                                    Base64Encode(rd.data)),
                           !.fileEntries = Append(z.fileEntries, file),
                           !.totalSize = z.totalSize + file.size,
                           !.fileCount = z.fileCount + 1,
                           !.processedFiles = z.processedFiles + 1,
                           !.processedBytes = z.processedBytes + file.size]
      told == [read EXCEPT !.events = Append(z.events,
                  ZipProgress(z, file, read.processedFiles, read.processedBytes))]
  IN IF file.isDirectory THEN [next EXCEPT !.fileEntries = Append(z.fileEntries, file)]
     ELSE IF ~rd.ok THEN [next EXCEPT !.fileEntries = Append(z.fileEntries, file),
                                      !.totalSize = z.totalSize + file.size,
                                      !.fileCount = z.fileCount + 1]
     ELSE IF z.cb.present /\ read.processedFiles % ProgressEvery = 0
     THEN told
     ELSE read

\* mutant: the totals are advanced before the read, so a file whose read
\* failed is counted though it is not entered
ZipFileStepCountsFirst(z, f) ==
  LET file == z.files[z.i]
      next == [z EXCEPT !.i = z.i + 1,
                        !.pc = IF z.i + 1 > Len(z.files) THEN "final" ELSE "loop"]
      rd == readFileContent(f, ReadPath(z.baseDir, file.path))
      read == [next EXCEPT !.fileContents = ObjSet(z.fileContents, file.path,
                                                    Base64Encode(rd.data)),
                           !.fileEntries = Append(z.fileEntries, file),
                           !.totalSize = z.totalSize + file.size,
                           !.fileCount = z.fileCount + 1,
                           !.processedFiles = z.processedFiles + 1,
                           !.processedBytes = z.processedBytes + file.size]
      told == [read EXCEPT !.events = Append(z.events,
                  ZipProgress(z, file, read.processedFiles, read.processedBytes))]
  IN IF file.isDirectory THEN [next EXCEPT !.fileEntries = Append(z.fileEntries, file)]
     ELSE IF ~rd.ok THEN [next EXCEPT !.totalSize = z.totalSize + file.size,
                                      !.fileCount = z.fileCount + 1]
     ELSE IF z.cb.present /\ read.processedFiles % ProgressEvery = 0
     THEN told
     ELSE read

\* one iteration of the loop over files.  The whole body of a file entry is
\* inside try/catch: a read failure and an exception of the callback both end
\* the iteration and the loop goes on (the callback is the last statement of
\* the body, so whether it throws changes nothing but the recorded call).
ZipFileStep(z, f) ==
  LET file == z.files[z.i]
      next == [z EXCEPT !.i = z.i + 1,
                        !.pc = IF z.i + 1 > Len(z.files) THEN "final" ELSE "loop"]
      rd == readFileContent(f, ReadPath(z.baseDir, file.path))
      read == [next EXCEPT !.fileContents = ObjSet(z.fileContents, file.path,
                                                    Base64Encode(rd.data)),
                           !.fileEntries = Append(z.fileEntries, file),
                           !.totalSize = z.totalSize + file.size,
                           !.fileCount = z.fileCount + 1,
                           !.processedFiles = z.processedFiles + 1,
                           !.processedBytes = z.processedBytes + file.size]
      told == [read EXCEPT !.events = Append(z.events,
                  ZipProgress(z, file, read.processedFiles, read.processedBytes))]
  IN IF file.isDirectory THEN [next EXCEPT !.fileEntries = Append(z.fileEntries, file)]
     ELSE IF ~rd.ok THEN next
     ELSE IF z.cb.present /\ read.processedFiles % ProgressEvery = 0
     THEN told
     ELSE read

\* mutant: the list of entries is one list that every call appends to
ZipLoopSharedEntries(c) ==
  /\ zipCall[c].pc = "loop"
  /\ zipCall' = [k \in CallIds |->
       IF k = c THEN ZipFileStep(zipCall[c], fs)
       ELSE [zipCall[k] EXCEPT !.fileEntries = ZipFileStep(zipCall[c], fs).fileEntries]]
  /\ UNCHANGED <<fs, unzipCall, codecCall>>

ZipLoop(c) ==
  /\ zipCall[c].pc = "loop"
  /\ zipCall' = [zipCall EXCEPT ![c] = ZipFileStep(zipCall[c], fs)]
  /\ UNCHANGED <<fs, unzipCall, codecCall>>

\* mutant: the last report carries the running counts
ZipFinalProgressRunning(z) ==
  ProgressInfo("zip", <<>>, z.processedFiles, z.totalFiles, z.processedBytes,
               z.totalBytes, RunningPercentage(z.processedFiles, z.totalFiles))

\* the report after the loop
ZipFinalProgress(z) ==
  ProgressInfo("zip", <<>>, z.totalFiles, z.totalFiles, z.totalBytes, z.totalBytes, Num(100))

ZipFinalStep(z) ==
  IF ~z.cb.present THEN [z EXCEPT !.pc = "compress"]
  ELSE IF Throws(z.cb, z.events)
  THEN [z EXCEPT !.pc = "failed", !.error = CallbackFault,
                 !.events = Append(z.events, ZipFinalProgress(z))]
  ELSE [z EXCEPT !.pc = "compress", !.events = Append(z.events, ZipFinalProgress(z))]

ZipFinal(c) ==
  /\ zipCall[c].pc = "final"
  /\ zipCall' = [zipCall EXCEPT ![c] = ZipFinalStep(zipCall[c])]
  /\ UNCHANGED <<fs, unzipCall, codecCall>>

\* JSON.stringify, compress, and the archive returned
ZipResult(z) ==
  LET blob == Compress(JSONStringify(z.fileContents))
  IN Archive(TRUE, JsString(Version100), TRUE, z.fileEntries, z.totalSize,
             z.fileCount, TRUE, blob.value)

ZipCompress(c) ==
  /\ zipCall[c].pc = "compress"
  /\ zipCall' = [zipCall EXCEPT ![c] =
       [zipCall[c] EXCEPT !.pc = "done", !.result = ZipResult(zipCall[c])]]
  /\ UNCHANGED <<fs, unzipCall, codecCall>>

(***************************************************************************)
(* Extractor.extract                                                       *)
(***************************************************************************)
\* !value of a string or of a missing value
Falsy(v) == v.t = "undefined" \/ (v.t = "string" /\ v.s = <<>>)

\* mutant: the check of the blob's type is missing
validateArchiveNoBlobCheck(data) ==
  IF ~data.hasMeta THEN InvalidArchiveError("Missing metadata")
  ELSE IF Falsy(data.version) THEN InvalidArchiveError("Missing version information")
  ELSE IF ~data.filesIsArray THEN InvalidArchiveError("Invalid file entries")
  ELSE NoError

\* validateArchive(data): the error it throws, NoError when it returns
validateArchive(data) ==
  IF ~data.hasMeta THEN InvalidArchiveError("Missing metadata")
  ELSE IF Falsy(data.version) THEN InvalidArchiveError("Missing version information")
  ELSE IF ~data.filesIsArray THEN InvalidArchiveError("Invalid file entries")
  ELSE IF ~data.blobIsString THEN InvalidArchiveError("Invalid or missing blob data")
  ELSE NoError

\* mutant: an empty blob is decoded like any other
ExtractStartNoShortCircuit(data, origin, outputDir, overwrite, preservePermissions, cb, f) ==
  LET u == [IdleUnzip EXCEPT !.data = data, !.origin = origin, !.outputDir = outputDir,
                             !.overwrite = OverwriteOrDefault(overwrite),
                             !.overwriteGiven = overwrite.given,
                             !.preservePermissions = preservePermissions,
                             !.cb = cb, !.before = f]
      e == validateArchive(data)
  IN IF e # NoError THEN [u EXCEPT !.pc = "failed", !.error = e]
     ELSE [u EXCEPT !.pc = "decode"]

\* the part of extract that runs before its first await: the defaults of
\* the options, validateArchive and the return of [] for an empty blob
ExtractStart(data, origin, outputDir, overwrite, preservePermissions, cb, f) ==
  LET u == [IdleUnzip EXCEPT !.data = data, !.origin = origin, !.outputDir = outputDir,
                             !.overwrite = OverwriteOrDefault(overwrite),
                             !.overwriteGiven = overwrite.given,
                             !.preservePermissions = preservePermissions,
                             !.cb = cb, !.before = f]
      e == validateArchive(data)
  IN IF e # NoError THEN [u EXCEPT !.pc = "failed", !.error = e]
     ELSE IF data.blob = <<>> THEN [u EXCEPT !.pc = "done", !.result = <<>>]
     ELSE [u EXCEPT !.pc = "decode"]

\* mutant: no try/catch around decompress and JSON.parse
DecodeBlobUnwrapped(blob) ==
  LET d == Decompress(blob)
      j == JSONParse(d.value)
  IN IF d.ok /\ j.ok
     THEN [ok |-> TRUE, fileContents |-> [kind |-> j.kind, members |-> j.members],
           error |-> NoError]
     ELSE [ok |-> FALSE, fileContents |-> [kind |-> "", members |-> <<>>],
           error |-> IF d.ok THEN SystemError("SyntaxError", <<>>) ELSE d.error]

\* decompress and JSON.parse inside one try: every failure is an
\* InvalidArchiveError
DecodeBlob(blob) ==
  LET d == Decompress(blob)
      j == JSONParse(d.value)
  IN IF d.ok /\ j.ok
     THEN [ok |-> TRUE, fileContents |-> [kind |-> j.kind, members |-> j.members],
           error |-> NoError]
     ELSE [ok |-> FALSE, fileContents |-> [kind |-> "", members |-> <<>>],
           error |-> InvalidArchiveError("Failed to decompress or parse archive blob")]

\* where the loop over meta.files goes after entry i
AfterEntry(u) ==
  [u EXCEPT !.i = u.i + 1,
            !.pc = IF u.i + 1 > Len(u.data.files) THEN "final" ELSE "entry"]

ExtractDecodeStep(u) ==
  LET r == DecodeBlob(u.data.blob)
  IN IF ~r.ok THEN [u EXCEPT !.pc = "failed", !.error = r.error]
     ELSE AfterEntry([u EXCEPT !.fileContents = r.fileContents, !.i = 0,
                               !.totalFiles = CountFiles(u.data.files),
                               !.totalBytes = u.data.totalSize])

UnzipDecode(c) ==
  /\ unzipCall[c].pc = "decode"
  /\ unzipCall' = [unzipCall EXCEPT ![c] = ExtractDecodeStep(unzipCall[c])]
  /\ UNCHANGED <<fs, zipCall, codecCall>>

\* const outputPath = joinPath(outputDir, entry.path)
OutputPath(u) == joinPath(u.outputDir, u.data.files[u.i].path)

\* mutant: the overwrite flag read the wrong way round
OverwriteRefusedInverted(f, outputPath, overwrite) ==
  fileExists(f, outputPath) /\ overwrite

\* mutant: no destination is ever refused
OverwriteRefusedNever(f, outputPath, overwrite) == FALSE

\* whether extract throws OverwriteError for a file entry
OverwriteRefused(f, outputPath, overwrite) == fileExists(f, outputPath) /\ ~overwrite

LogOp(op, path, data) == [op |-> op, path |-> path, data |-> data]

\* mutant: the path of a directory is put before the paths extracted so far
ExtractEntryStepDirsFirst(u, f) ==
  LET entry == u.data.files[u.i]
      outputPath == OutputPath(u)
      md == Mkdirp(f, outputPath)
      mp == Mkdirp(f, getDirName(outputPath))
  IN IF entry.isDirectory
     THEN IF ~md.ok
          THEN [call |-> [u EXCEPT !.pc = "failed", !.error = md.error], fs |-> f]
          ELSE [call |-> AfterEntry([u EXCEPT
                           !.extractedFiles = <<outputPath>> \o u.extractedFiles,
                           !.log = Append(u.log, LogOp("mkdir", outputPath, <<>>))]),
                fs |-> md.fs]
     ELSE IF OverwriteRefused(f, outputPath, u.overwrite)
     THEN [call |-> [u EXCEPT !.pc = "failed", !.error = OverwriteError(outputPath)],
           fs |-> f]
     ELSE IF ~mp.ok
     THEN [call |-> [u EXCEPT !.pc = "failed", !.error = mp.error], fs |-> f]
     ELSE [call |-> [u EXCEPT !.pc = "write",
                              !.log = Append(u.log, LogOp("mkdir", getDirName(outputPath),
                                                          <<>>))],
           fs |-> mp.fs]

\* a directory entry: mkdir and push; a file entry: the overwrite check and
\* the mkdir of its parent.  [call, fs]
ExtractEntryStep(u, f) ==
  LET entry == u.data.files[u.i]
      outputPath == OutputPath(u)
      md == Mkdirp(f, outputPath)
      mp == Mkdirp(f, getDirName(outputPath))
  IN IF entry.isDirectory
     THEN IF ~md.ok
          THEN [call |-> [u EXCEPT !.pc = "failed", !.error = md.error], fs |-> f]
          ELSE [call |-> AfterEntry([u EXCEPT
                           !.extractedFiles = Append(u.extractedFiles, outputPath),
                           !.log = Append(u.log, LogOp("mkdir", outputPath, <<>>))]),
                fs |-> md.fs]
     ELSE IF OverwriteRefused(f, outputPath, u.overwrite)
     THEN [call |-> [u EXCEPT !.pc = "failed", !.error = OverwriteError(outputPath)],
           fs |-> f]
     ELSE IF ~mp.ok
     THEN [call |-> [u EXCEPT !.pc = "failed", !.error = mp.error], fs |-> f]
     ELSE [call |-> [u EXCEPT !.pc = "write",
                              !.log = Append(u.log, LogOp("mkdir", getDirName(outputPath),
                                                          <<>>))],
           fs |-> mp.fs]

UnzipEntry(c) ==
  /\ unzipCall[c].pc = "entry"
  /\ LET r == ExtractEntryStep(unzipCall[c], fs)
     IN /\ unzipCall' = [unzipCall EXCEPT ![c] = r.call]
        /\ fs' = r.fs
  /\ UNCHANGED <<zipCall, codecCall>>

\* the in-loop report of extract
UnzipProgress(u, entry, processedFiles, processedBytes) ==
  ProgressInfo("unzip", entry.path, processedFiles, u.totalFiles, processedBytes,
               u.totalBytes, RunningPercentage(processedFiles, u.totalFiles))

\* mutant: the modulo test reads the count before it is incremented
ExtractWrittenEarly(u) ==
  LET entry == u.data.files[u.i]
      counted == [u EXCEPT !.extractedFiles = Append(u.extractedFiles, OutputPath(u)),
                           !.processedFiles = u.processedFiles + 1,
                           !.processedBytes = u.processedBytes + entry.size]
      told == [counted EXCEPT !.events = Append(u.events,
                 UnzipProgress(u, entry, counted.processedFiles, counted.processedBytes))]
  IN IF u.cb.present /\ u.processedFiles % ProgressEvery = 0
     THEN IF Throws(u.cb, u.events)
          THEN [told EXCEPT !.pc = "failed", !.error = CallbackFault]
          ELSE AfterEntry(told)
     ELSE AfterEntry(counted)

\* after the write (and the chmod): push, count, report every tenth file
ExtractWritten(u) ==
  LET entry == u.data.files[u.i]
      counted == [u EXCEPT !.extractedFiles = Append(u.extractedFiles, OutputPath(u)),
                           !.processedFiles = u.processedFiles + 1,
                           !.processedBytes = u.processedBytes + entry.size]
      told == [counted EXCEPT !.events = Append(u.events,
                 UnzipProgress(u, entry, counted.processedFiles, counted.processedBytes))]
  IN IF u.cb.present /\ counted.processedFiles % ProgressEvery = 0
     THEN IF Throws(u.cb, u.events)
          THEN [told EXCEPT !.pc = "failed", !.error = CallbackFault]
          ELSE AfterEntry(told)
     ELSE AfterEntry(counted)

\* const content = fileContents[entry.path]; if (!content) continue
HasContent(fileContents, path) ==
  ObjHas(fileContents.members, path) /\ ObjGet(fileContents.members, path) # <<>>

\* mutant: an entry without content is pushed and counted like a written one
ExtractWriteStepCountsSkipped(u, f) ==
  LET entry == u.data.files[u.i]
      outputPath == OutputPath(u)
      buffer == Base64Decode(ObjGet(u.fileContents.members, entry.path))
      w == writeFileContent(f, outputPath, buffer)
      wrote == [u EXCEPT !.log = Append(u.log, LogOp("write", outputPath, buffer))]
  IN IF u.fileContents.kind = "null"
     THEN [call |-> [u EXCEPT !.pc = "failed",
                              !.error = SystemError("TypeError", <<>>)], fs |-> f]
     ELSE IF ~HasContent(u.fileContents, entry.path)
     THEN [call |-> ExtractWritten(u), fs |-> f]
     ELSE IF ~w.ok
     THEN [call |-> [u EXCEPT !.pc = "failed", !.error = w.error], fs |-> f]
     ELSE IF u.preservePermissions
     THEN [call |-> [wrote EXCEPT !.pc = "perm"], fs |-> w.fs]
     ELSE [call |-> ExtractWritten(wrote), fs |-> w.fs]

\* the lookup of the content and the write.  [call, fs]
ExtractWriteStep(u, f) ==
  LET entry == u.data.files[u.i]
      outputPath == OutputPath(u)
      buffer == Base64Decode(ObjGet(u.fileContents.members, entry.path))
      w == writeFileContent(f, outputPath, buffer)
      wrote == [u EXCEPT !.log = Append(u.log, LogOp("write", outputPath, buffer))]
  IN IF u.fileContents.kind = "null"
     THEN [call |-> [u EXCEPT !.pc = "failed",
                              !.error = SystemError("TypeError", <<>>)], fs |-> f]
     ELSE IF ~HasContent(u.fileContents, entry.path)
     THEN [call |-> AfterEntry(u), fs |-> f]
     ELSE IF ~w.ok
     THEN [call |-> [u EXCEPT !.pc = "failed", !.error = w.error], fs |-> f]
     ELSE IF u.preservePermissions
     THEN [call |-> [wrote EXCEPT !.pc = "perm"], fs |-> w.fs]
     ELSE [call |-> ExtractWritten(wrote), fs |-> w.fs]

UnzipWrite(c) ==
  /\ unzipCall[c].pc = "write"
  /\ LET r == ExtractWriteStep(unzipCall[c], fs)
     IN /\ unzipCall' = [unzipCall EXCEPT ![c] = r.call]
        /\ fs' = r.fs
  /\ UNCHANGED <<zipCall, codecCall>>

\* mutant: no try/catch around setFilePermissions
UnzipPermUnwrapped(c) ==
  /\ unzipCall[c].pc = "perm"
  /\ LET u == unzipCall[c]
         r == setFilePermissions(fs, OutputPath(u), u.data.files[u.i].mode)
     IN /\ fs' = IF r.ok THEN r.fs ELSE fs
        /\ unzipCall' = [unzipCall EXCEPT ![c] =
             IF r.ok THEN ExtractWritten(u)
             ELSE [u EXCEPT !.pc = "failed", !.error = r.error]]
  /\ UNCHANGED <<zipCall, codecCall>>

\* setFilePermissions inside try/catch: a failure changes nothing
UnzipPerm(c) ==
  /\ unzipCall[c].pc = "perm"
  /\ LET u == unzipCall[c]
         r == setFilePermissions(fs, OutputPath(u), u.data.files[u.i].mode)
     IN /\ fs' = IF r.ok THEN r.fs ELSE fs
        /\ unzipCall' = [unzipCall EXCEPT ![c] = ExtractWritten(u)]
  /\ UNCHANGED <<zipCall, codecCall>>

\* the report after the loop
UnzipFinalProgress(u) ==
  ProgressInfo("unzip", <<>>, u.totalFiles, u.totalFiles, u.totalBytes, u.totalBytes,
               Num(100))

ExtractFinalStep(u) ==
  IF ~u.cb.present THEN [u EXCEPT !.pc = "done", !.result = u.extractedFiles]
  ELSE IF Throws(u.cb, u.events)
  THEN [u EXCEPT !.pc = "failed", !.error = CallbackFault,
                 !.events = Append(u.events, UnzipFinalProgress(u))]
  ELSE [u EXCEPT !.pc = "done", !.result = u.extractedFiles,
                 !.events = Append(u.events, UnzipFinalProgress(u))]

UnzipFinal(c) ==
  /\ unzipCall[c].pc = "final"
  /\ unzipCall' = [unzipCall EXCEPT ![c] = ExtractFinalStep(unzipCall[c])]
  /\ UNCHANGED <<fs, zipCall, codecCall>>

(***************************************************************************)
(* The filesystems and the inputs of the model                             *)
(***************************************************************************)
NameA == <<97>>                       \* "a"
NameD == <<100>>                      \* "d"
NameDB == <<100, 47, 98>>             \* "d/b"
NameE == <<101>>                      \* "e"
NameUpX == <<46, 46, 47, 120>>        \* "../x"
NameUpY == <<46, 46, 47, 121>>        \* "../y"
NameAbsA == <<47, 97>>                \* "/a"
NameTmp == <<116, 46, 116, 109, 112>> \* "t.tmp"
\* "f01", "f02", ...
BulkName(i) == <<102, 48 + (i \div 10), 48 + (i % 10)>>

Under(dir, name) == dir \o Slash \o name

\* the directories every filesystem of the model has: /src, /out (empty)
\* and /pre, which holds d/b
BaseFs ==
  (Root :> DirNode(NewDirPerm)) @@ (SrcDir :> DirNode(NewDirPerm))
    @@ (OutDir :> DirNode(NewDirPerm)) @@ (PreDir :> DirNode(NewDirPerm))
    @@ (Under(PreDir, NameD) :> DirNode(NewDirPerm))
    @@ (Under(PreDir, NameDB) :> ForeignFileNode(<<111, 108, 100>>, NewFilePerm))

\* the files a source tree may hold at /src/a: none, an empty file, "Hi",
\* an unreadable file
ChoicesA ==
  {<<>>, <<FileNode(<<>>, NewFilePerm)>>, <<FileNode(<<72, 105>>, NewFilePerm)>>,
   <<FileNode(<<72>>, 0)>>}

\* a source tree: /src/a, the directory /src/d with d/b, the empty
\* directory /src/e, and the files f01 .. f<bulk>
SourceTree(a, withD, withE, bulk) ==
  (IF a = <<>> THEN <<>> ELSE Under(SrcDir, NameA) :> a[1])
    @@ (IF withD
        THEN (Under(SrcDir, NameD) :> DirNode(NewDirPerm))
               @@ (Under(SrcDir, NameDB) :> FileNode(<<1, 2, 3>>, 384))
        ELSE <<>>)
    @@ (IF withE THEN Under(SrcDir, NameE) :> DirNode(NewDirPerm) ELSE <<>>)
    @@ [p \in {Under(SrcDir, BulkName(i)) : i \in 1..bulk} |->
          FileNode(<<Len(p)>>, NewFilePerm)]

\* a source tree that also holds t.tmp, which a default ignore matches
WithTmp(tree) == tree @@ (Under(SrcDir, NameTmp) :> FileNode(<<5>>, NewFilePerm))

SourceTrees ==
  {SourceTree(a, d, e, 0) : a \in ChoicesA, d \in BOOLEAN, e \in BOOLEAN}
    \cup {SourceTree(a, TRUE, FALSE, MaxBulk) : a \in ChoicesA}
    \cup {WithTmp(SourceTree(<<FileNode(<<72, 105>>, NewFilePerm)>>, d, FALSE, 0)) :
            d \in BOOLEAN}

\* "**/*", "*", "d/*"
PatAll == <<42, 42, 47, 42>>
PatTop == <<42>>
PatInD == <<100, 47, 42>>
\* "../pre/d/*"
PatUp == <<46, 46, 47, 112, 114, 101, 47, 100, 47, 42>>

\* the elements a patterns array of the model is made of
PatternElements ==
  {JsString(PatAll), JsString(PatTop), JsString(<<>>), JsString(<<32>>),
   JsOther("number"), JsOther("object"), JsOther("undefined")}

\* the patterns arguments: non-arrays, arrays of up to MaxPatterns elements,
\* and the array ["**/*", "d/*"], whose matches overlap
PatternArgs ==
  {JsNonArray("object"), JsNonArray("string"), JsNonArray("undefined")}
    \cup {JsArray(items) : items \in UNION {[1..n -> PatternElements] : n \in 0..MaxPatterns}}
    \cup {JsArray(<<JsString(PatAll), JsString(PatInD)>>), JsArray(<<JsString(PatUp)>>)}

\* the patterns the round trips are run with
GoodPatterns ==
  {JsArray(<<JsString(PatAll)>>), JsArray(<<JsString(PatTop)>>),
   JsArray(<<JsString(PatAll), JsString(PatInD)>>), JsArray(<<JsString(PatUp)>>),
   JsArray(<<>>)}

\* the ignore option: nothing, or ["d/*"]
IgnoreArgs == {<<>>, <<PatInD>>}

OutputDirs == {OutDir, PreDir}

(***************************************************************************)
(* The program: one build, then one extract of its result                  *)
(***************************************************************************)
Init ==
  /\ fs \in {BaseFs @@ t : t \in SourceTrees}
  /\ zipCall = [c \in CallIds |-> IdleZip]
  /\ unzipCall = [c \in CallIds |-> IdleUnzip]
  /\ codecCall = IdleCodec

\* zip(patterns, { baseDir, ignore, onProgress })
Zip(c) ==
  /\ zipCall[c].pc = "idle"
  /\ unzipCall[c].pc = "idle"
  /\ \E patterns \in PatternArgs, ignore \in IgnoreArgs, cb \in Callbacks :
       /\ patterns \in GoodPatterns \/ (validatePatterns(patterns) # NoError /\ ignore = <<>>)
       /\ StartZip(c, patterns, SrcDir, ignore, cb)

\* unzip(archive, options) of the archive a finished build returned; the
\* frame of the build is released
UnzipBuilt(c) ==
  /\ zipCall[c].pc = "done"
  /\ unzipCall[c].pc = "idle"
  /\ \E outputDir \in OutputDirs, overwrite \in OverwriteOptions,
        preservePermissions \in BOOLEAN, cb \in Callbacks :
       unzipCall' = [unzipCall EXCEPT ![c] =
         ExtractStart(zipCall[c].result,
                      [built |-> TRUE, patterns |-> zipCall[c].patterns,
                       baseDir |-> zipCall[c].baseDir, ignore |-> zipCall[c].ignore],
                      outputDir, overwrite, preservePermissions, cb, fs)]
  /\ zipCall' = [zipCall EXCEPT ![c] = IdleZip]
  /\ UNCHANGED <<fs, codecCall>>

Next ==
  \E c \in SeqCalls :
    \/ Zip(c)
    \/ ZipCollect(c)
    \/ ZipLoop(c)
    \/ ZipFinal(c)
    \/ ZipCompress(c)
    \/ UnzipBuilt(c)
    \/ UnzipDecode(c)
    \/ UnzipEntry(c)
    \/ UnzipWrite(c)
    \/ UnzipPerm(c)
    \/ UnzipFinal(c)

Spec == Init /\ [][Next]_vars

(***************************************************************************)
(* The program: two builds with the same arguments, their steps            *)
(* interleaved, on a filesystem that no step changes                       *)
(***************************************************************************)
ZipTwice ==
  /\ \A c \in CallIds : zipCall[c].pc = "idle" /\ unzipCall[c].pc = "idle"
  /\ \E patterns \in GoodPatterns, ignore \in IgnoreArgs :
       zipCall' = [c \in CallIds |-> ZipStarted(patterns, SrcDir, ignore, NoCallback)]
  /\ UNCHANGED <<fs, unzipCall, codecCall>>

NextTwoBuilds ==
  \/ ZipTwice
  \/ \E c \in CallIds :
       \/ ZipCollect(c)
       \/ ZipLoop(c)
       \/ ZipFinal(c)
       \/ ZipCompress(c)

SpecTwoBuilds == Init /\ [][NextTwoBuilds]_vars

(***************************************************************************)
(* The program: one extract of an archive that was made by hand            *)
(***************************************************************************)
FilePool ==
  {Entry(NameA, 2, S_IFREG + NewFilePerm, FALSE),
   Entry(NameDB, 3, S_IFREG + NewFilePerm, FALSE),
   Entry(NameD, 0, S_IFDIR + NewDirPerm, TRUE),
   Entry(NameUpX, 1, S_IFREG + NewFilePerm, FALSE),
   Entry(NameUpY, 0, S_IFDIR + NewDirPerm, TRUE),
   Entry(NameAbsA, 1, S_IFREG + NewFilePerm, FALSE)}

\* the bytes the hand-made payloads hold for a path
ContentOf(path) ==
  IF path = NameA THEN <<72, 105>>
  ELSE IF path = NameDB THEN <<1, 2, 3>>
  ELSE IF path = NameUpX THEN <<9>>
  ELSE <<7>>

\* the payload map with a value for every file entry
RECURSIVE PayloadOf(_)
PayloadOf(files) ==
  IF files = <<>> THEN <<>>
  ELSE LET rest == PayloadOf(SubSeq(files, 1, Len(files) - 1))
           e == files[Len(files)]
       IN IF e.isDirectory THEN rest
          ELSE ObjSet(rest, e.path, Base64Encode(ContentOf(e.path)))

BlobOf(obj) == Compress(JSONStringify(obj)).value

GoodArchive(version, files, blob) ==
  Archive(TRUE, JsString(version), TRUE, files, SumFileSizes(files), CountFiles(files),
          TRUE, blob)

\* blobs that are not the compressed text of a payload map: "!!!", the
\* base64 of bytes that are no gzip stream, the compressed texts "no" and
\* {"a": , and the compressed text null
BlobNotBase64 == <<33, 33, 33>>
BlobNotGzip == Base64Encode(<<110, 111, 116, 32, 103, 122, 105, 112>>)
BlobNotJson == Compress(<<110, 111>>).value
BlobCutJson == Compress(<<123, 34, 97, 34, 58>>).value
BlobJsonNull == Compress(JsonNull).value
CorruptBlobs == {BlobNotBase64, BlobNotGzip, BlobNotJson, BlobCutJson}

EntryLists == UNION {[1..n -> FilePool] : n \in 0..MaxEntries}

OneFile == <<Entry(NameA, 2, S_IFREG + NewFilePerm, FALSE)>>
DirAndFile ==
  <<Entry(NameD, 0, S_IFDIR + NewDirPerm, TRUE),
    Entry(NameDB, 3, S_IFREG + NewFilePerm, FALSE)>>

\* entry lists whose payload lacks the value of the first entry
FirstMissingLists ==
  {<<Entry(NameA, 2, S_IFREG + NewFilePerm, FALSE),
     Entry(NameDB, 3, S_IFREG + NewFilePerm, FALSE)>>,
   <<Entry(NameDB, 3, S_IFREG + NewFilePerm, FALSE),
     Entry(NameA, 2, S_IFREG + NewFilePerm, FALSE)>>,
   <<Entry(NameA, 2, S_IFREG + NewFilePerm, FALSE),
     Entry(NameD, 0, S_IFDIR + NewDirPerm, TRUE),
     Entry(NameDB, 3, S_IFREG + NewFilePerm, FALSE)>>}

HandMadeArchives ==
  \* every shape validateArchive looks at
  {Archive(hasMeta, version, filesIsArray, IF filesIsArray THEN OneFile ELSE <<>>, 2, 1,
           blobIsString, IF blobIsString THEN BlobOf(PayloadOf(OneFile)) ELSE <<>>) :
     hasMeta \in BOOLEAN,
     version \in {JsOther("undefined"), JsString(<<>>), JsString(Version100),
                  JsString(Version200)},
     filesIsArray \in BOOLEAN, blobIsString \in BOOLEAN}
  \* a blob that is empty, corrupt or null
  \cup {GoodArchive(Version100, files, blob) :
          files \in {OneFile, DirAndFile},
          blob \in CorruptBlobs \cup {<<>>, BlobJsonNull}}
  \* every entry list, with a full payload and with an empty payload map
  \cup {GoodArchive(Version100, files, BlobOf(PayloadOf(files))) : files \in EntryLists}
  \cup {GoodArchive(Version100, files, BlobOf(<<>>)) : files \in EntryLists}
  \* a payload that lacks the first entry
  \cup {GoodArchive(Version100, files, BlobOf(PayloadOf(Tail(files)))) :
          files \in FirstMissingLists}

InitExtract ==
  /\ fs = BaseFs
  /\ zipCall = [c \in CallIds |-> IdleZip]
  /\ unzipCall = [c \in CallIds |-> IdleUnzip]
  /\ codecCall = IdleCodec

\* unzip(archive, options) of a hand-made archive
UnzipHandMade(c) ==
  /\ unzipCall[c].pc = "idle"
  /\ \E data \in HandMadeArchives, outputDir \in OutputDirs,
        overwrite \in OverwriteOptions,
        preservePermissions \in BOOLEAN, cb \in Callbacks :
       unzipCall' = [unzipCall EXCEPT ![c] =
         ExtractStart(data, NoOrigin, outputDir, overwrite, preservePermissions, cb, fs)]
  /\ UNCHANGED <<fs, zipCall, codecCall>>

NextExtract ==
  \E c \in SeqCalls :
    \/ UnzipHandMade(c)
    \/ UnzipDecode(c)
    \/ UnzipEntry(c)
    \/ UnzipWrite(c)
    \/ UnzipPerm(c)
    \/ UnzipFinal(c)

SpecExtract == InitExtract /\ [][NextExtract]_vars

(***************************************************************************)
(* The program: two extracts of the same archive into the same directory,  *)
(* both with overwrite=false, their steps interleaved                      *)
(***************************************************************************)
FileThenFile ==
  <<Entry(NameA, 2, S_IFREG + NewFilePerm, FALSE),
    Entry(NameDB, 3, S_IFREG + NewFilePerm, FALSE)>>

SharedArchives ==
  {GoodArchive(Version100, files, BlobOf(PayloadOf(files))) :
     files \in {OneFile, DirAndFile, FileThenFile}}

\* both calls are made before either runs past its first await
UnzipTwice ==
  /\ \A c \in CallIds : zipCall[c].pc = "idle" /\ unzipCall[c].pc = "idle"
  /\ \E data \in SharedArchives, outputDir \in OutputDirs,
        overwrite \in {NotGiven, Given(FALSE)}, preservePermissions \in BOOLEAN :
       unzipCall' = [c \in CallIds |->
         ExtractStart(data, NoOrigin, outputDir, overwrite, preservePermissions,
                      NoCallback, fs)]
  /\ UNCHANGED <<fs, zipCall, codecCall>>

NextTwoExtracts ==
  \/ UnzipTwice
  \/ \E c \in CallIds :
       \/ UnzipDecode(c)
       \/ UnzipEntry(c)
       \/ UnzipWrite(c)
       \/ UnzipPerm(c)
       \/ UnzipFinal(c)

SpecTwoExtracts == InitExtract /\ [][NextTwoExtracts]_vars

(***************************************************************************)
(* The program: the Compressor used directly                               *)
(***************************************************************************)
\* the code units of the texts: A, e-acute, the euro sign, and the two
\* surrogates of U+1F600
TextUnits == {65, 233, 8364, 55357, 56832}

Texts == UNION {[1..n -> TextUnits] : n \in 0..MaxText}

\* a compressed text with a character put in, added or taken away
DamageKinds == {"bang-first", "space-middle", "newline-last", "cut-last"}
Damage(b, kind) ==
  IF kind = "bang-first" THEN <<33>> \o b
  ELSE IF kind = "space-middle"
  THEN SubSeq(b, 1, Len(b) \div 2) \o <<32>> \o SubSeq(b, (Len(b) \div 2) + 1, Len(b))
  ELSE IF kind = "newline-last" THEN b \o <<10>>
  ELSE SubSeq(b, 1, Len(b) - 1)

\* the base64 of a gzip stream whose data is no UTF-8 text
BlobNotUtf8 == Base64Encode(Gzip(<<65, 255, 226, 130>>))

\* the texts given to decompress
DecodeInputs ==
  {<<>>, BlobNotBase64, BlobNotGzip, BlobNotUtf8}
    \cup {Compress(d).value : d \in Texts}
    \cup {Damage(Compress(d).value, kind) : d \in Texts, kind \in DamageKinds}

InitCodec ==
  /\ fs = BaseFs
  /\ zipCall = [c \in CallIds |-> IdleZip]
  /\ unzipCall = [c \in CallIds |-> IdleUnzip]
  /\ codecCall = IdleCodec

\* compressor.compress(data)
CodecCompress ==
  /\ codecCall.pc = "idle"
  /\ \E data \in Texts :
       LET r == Compress(data)
       IN codecCall' = IF r.ok
                       THEN [IdleCodec EXCEPT !.pc = "compressed", !.op = "roundtrip",
                                              !.input = data, !.blob = r.value]
                       ELSE [IdleCodec EXCEPT !.pc = "failed", !.op = "roundtrip",
                                              !.input = data, !.error = r.error]
  /\ UNCHANGED <<fs, zipCall, unzipCall>>

\* compressor.decompress(blob) of the result of compress
CodecDecompress ==
  /\ codecCall.pc = "compressed"
  /\ LET r == Decompress(codecCall.blob)
     IN codecCall' = IF r.ok
                     THEN [codecCall EXCEPT !.pc = "done", !.output = r.value]
                     ELSE [codecCall EXCEPT !.pc = "failed", !.error = r.error]
  /\ UNCHANGED <<fs, zipCall, unzipCall>>

\* compressor.decompress(base64Data) of a given text
CodecDecode ==
  /\ codecCall.pc = "idle"
  /\ \E base64Data \in DecodeInputs :
       LET r == Decompress(base64Data)
       IN codecCall' = IF r.ok
                       THEN [IdleCodec EXCEPT !.pc = "done", !.op = "decode",
                                              !.blob = base64Data, !.output = r.value]
                       ELSE [IdleCodec EXCEPT !.pc = "failed", !.op = "decode",
                                              !.blob = base64Data, !.error = r.error]
  /\ UNCHANGED <<fs, zipCall, unzipCall>>

NextCodec ==
  \/ CodecCompress
  \/ CodecDecompress
  \/ CodecDecode

SpecCodec == InitCodec /\ [][NextCodec]_vars

(***************************************************************************)
(* Properties                                                              *)
(***************************************************************************)
\* p is dir or lies below it
Inside(p, dir) == p = dir \/ StartsWith(p, dir \o Slash)

\* the paths whose node differs between two filesystems
Changed(f, g) ==
  {p \in DOMAIN f \cup DOMAIN g : p \notin DOMAIN f \/ p \notin DOMAIN g \/ f[p] # g[p]}

\* every directory the call made is a directory and every file it wrote
\* holds the bytes it wrote
LogOnDisk(u, f) ==
  \A k \in 1..Len(u.log) :
    IF u.log[k].op = "mkdir" THEN IsDir(f, u.log[k].path)
    ELSE IsFile(f, u.log[k].path) /\ f[u.log[k].path].data = u.log[k].data

IsWriteOp(op) == op.op = "write"
\* the number of files the call has written
Written(u) == Len(SelectSeq(u.log, IsWriteOp))

\* C1: Round-trip.  After a build over /src and a successful extract of its
\* archive into the empty /out, every readable regular file the patterns
\* match, of any length, is a file of /out with the same bytes, and every
\* archived directory is a directory of /out.
C1_RoundTrip ==
  \A c \in SeqCalls :
    LET u == unzipCall[c]
        matched == IF u.origin.patterns.items = <<>> THEN {}
                   ELSE AllFiles(fs, u.origin.patterns.items, u.origin.baseDir,
                                 u.origin.ignore)
    IN (u.pc = "done" /\ u.origin.built /\ u.outputDir = OutDir) =>
         /\ \A p \in matched :
              (IsFile(fs, p) /\ Readable(fs[p].perm)) =>
                LET q == joinPath(u.outputDir, Relative(u.origin.baseDir, p))
                IN IsFile(fs, q) /\ fs[q].data = fs[p].data
         /\ \A k \in 1..Len(u.data.files) :
              u.data.files[k].isDirectory =>
                IsDir(fs, joinPath(u.outputDir, u.data.files[k].path))

\* C2: Overwrite fail-fast without rollback.  With overwrite = false, the
\* call goes on past the check of a file entry only when its destination is
\* not on disk; when it fails with OverwriteError the error names the
\* destination of the entry it stopped at, a non-directory entry whose
\* destination is on disk, no step of the call is enabled any more, and
\* every directory made and file written before is on disk as written.
C2_OverwriteFailFast ==
  \A c \in SeqCalls :
    LET u == unzipCall[c]
    IN (u.pc # "idle" /\ ~u.overwrite) =>
         /\ u.pc = "write" => ~fileExists(fs, OutputPath(u))
         /\ (u.pc = "failed" /\ u.error.name = "OverwriteError") =>
              /\ u.error = OverwriteError(OutputPath(u))
              /\ ~u.data.files[u.i].isDirectory
              /\ fileExists(fs, OutputPath(u))
              /\ Len(u.extractedFiles) < u.i
              /\ ~ENABLED (UnzipDecode(c) \/ UnzipEntry(c) \/ UnzipWrite(c)
                             \/ UnzipPerm(c) \/ UnzipFinal(c))
              /\ LogOnDisk(u, fs)

\* C2 witness: an extract with overwrite = false has written a file and then
\* failed with OverwriteError at a later entry.
C2_Witness ==
  \E c \in SeqCalls :
    /\ unzipCall[c].pc = "failed"
    /\ ~unzipCall[c].overwrite
    /\ unzipCall[c].error.name = "OverwriteError"
    /\ Written(unzipCall[c]) >= 1

\* C3: Path containment.  Every path an extract call has created or changed
\* lies inside its outputDir.
C3_PathContainment ==
  \A c \in SeqCalls :
    LET u == unzipCall[c]
    IN u.pc # "idle" => \A p \in Changed(u.before, fs) : Inside(p, u.outputDir)

\* whether the blob is non-empty and cannot be decompressed, or decompresses
\* to a text that does not parse
CorruptPayload(data) ==
  /\ data.blob # <<>>
  /\ \/ ~Gunzip(Base64Decode(data.blob)).ok
     \/ ~JSONParse(Gunzip(Base64Decode(data.blob)).data).ok

StructurallyValid(data) ==
  data.hasMeta /\ ~Falsy(data.version) /\ data.filesIsArray /\ data.blobIsString

\* C4: Corrupt payload.  An extract of a structurally valid archive whose
\* non-empty blob does not decompress or does not parse has, once past its
\* decode step, failed with InvalidArchiveError and has made no directory and
\* written no file.
C4_CorruptPayload ==
  \A c \in SeqCalls :
    LET u == unzipCall[c]
    IN (u.pc \notin {"idle", "decode"} /\ StructurallyValid(u.data)
          /\ CorruptPayload(u.data)) =>
         /\ u.pc = "failed"
         /\ u.error.name = "InvalidArchiveError"
         /\ u.log = <<>>
         /\ fs = u.before

\* C4 witness: an extract has failed on a blob that decompresses to a text
\* that does not parse.
C4_Witness ==
  \E c \in SeqCalls :
    /\ unzipCall[c].pc = "failed"
    /\ StructurallyValid(unzipCall[c].data)
    /\ CorruptPayload(unzipCall[c].data)
    /\ Gunzip(Base64Decode(unzipCall[c].data.blob)).ok

\* C5: Structural validation gate.  An extract of an archive without meta,
\* without a non-empty version, without a files array or without a string
\* blob has failed with InvalidArchiveError, its reason names a defect the
\* archive has, and the filesystem is as it was.
C5_ValidationGate ==
  \A c \in SeqCalls :
    LET u == unzipCall[c]
        d == u.data
    IN (u.pc # "idle" /\ ~StructurallyValid(d)) =>
         /\ u.pc = "failed"
         /\ u.error.name = "InvalidArchiveError"
         /\ \/ u.error.kind = "Missing metadata" /\ ~d.hasMeta
            \/ u.error.kind = "Missing version information" /\ d.hasMeta
                 /\ Falsy(d.version)
            \/ u.error.kind = "Invalid file entries" /\ d.hasMeta /\ ~d.filesIsArray
            \/ u.error.kind = "Invalid or missing blob data" /\ d.hasMeta
                 /\ ~d.blobIsString
         /\ u.log = <<>>
         /\ fs = u.before

\* C5 witness: an extract has failed on an archive whose only defect is a
\* blob that is no string.
C5_Witness ==
  \E c \in SeqCalls :
    LET d == unzipCall[c].data
    IN /\ unzipCall[c].pc = "failed"
       /\ d.hasMeta /\ ~Falsy(d.version) /\ d.filesIsArray /\ ~d.blobIsString

\* the major version of a version string
Major(version) == Split(version, 46)[1]

\* C6: Version rejection.  An extract of an archive whose version has a
\* major version other than 1 never completes and writes nothing.
C6_VersionRejected ==
  \A c \in SeqCalls :
    LET u == unzipCall[c]
    IN (u.pc # "idle" /\ u.data.hasMeta /\ u.data.version.t = "string"
          /\ u.data.version.s # <<>> /\ Major(u.data.version.s) # <<49>>) =>
         /\ u.pc # "done"
         /\ fs = u.before

\* the percentage of the last report is 100
LastIsHundred(events) ==
  /\ Len(events) >= 1
  /\ NumEq(events[Len(events)].percentage, 100)

\* C7: Progress terminal guarantee.  A build that collected at least one
\* entry, and an extract of an archive with a non-empty blob, that had a
\* progress callback and completed, invoked it at least once and the last
\* invocation reported the percentage 100.
C7_ProgressTerminal ==
  \A c \in SeqCalls :
    LET z == zipCall[c]
        u == unzipCall[c]
    IN /\ (z.pc = "done" /\ z.cb.present /\ Len(z.files) >= 1) =>
            LastIsHundred(z.events)
       /\ (u.pc = "done" /\ u.cb.present /\ u.data.blob # <<>>) =>
            LastIsHundred(u.events)

\* C7 witness: a build with a callback has completed after an in-loop report
\* and the report after the loop.
C7_Witness ==
  \E c \in SeqCalls :
    /\ zipCall[c].pc = "done"
    /\ zipCall[c].cb.present
    /\ Len(zipCall[c].events) = 2

\* the number of files the build has read among the entries before its
\* position
ReadCount(z, f) ==
  Cardinality({k \in 1..Min(z.i - 1, Len(z.files)) :
                 /\ ~z.files[k].isDirectory
                 /\ readFileContent(f, ReadPath(z.baseDir, z.files[k].path)).ok})

\* the k-th report of a call is made when the k-th ten of files is complete
InLoopReports(events, n) ==
  \A k \in 1..n :
    /\ events[k].processedFiles = k * ProgressEvery
    /\ events[k].currentFile # <<>>

C9_CallbackFaultPropagates ==
  \A c \in SeqCalls :
    LET z == zipCall[c]
        u == unzipCall[c]
    IN /\ (z.cb.present /\ z.cb.throwAt \in 1..Len(z.events)) =>
            (z.pc = "failed" /\ z.error = CallbackFault)
       /\ (u.cb.present /\ u.cb.throwAt \in 1..Len(u.events)) =>
            (u.pc = "failed" /\ u.error = CallbackFault)

\* an element that is no string, or a string of nothing but white space
Defective(e) ==
  \/ e.t # "string"
  \/ \A k \in 1..Len(e.s) : IsWhitespace(e.s[k])

\* C10: Pattern validation reports the first defect only.  A build has
\* failed with a plain Error iff its patterns are no array or have a
\* defective element; the error then carries the smallest defective index,
\* the category of that element's defect and, for a non-string, its type.
C10_FirstDefectOnly ==
  \A c \in SeqCalls :
    LET z == zipCall[c]
        p == z.patterns
        bad == {i \in 1..Len(p.items) : Defective(p.items[i])}
    IN z.pc # "idle" =>
         /\ (z.pc = "failed" /\ z.error.name = "Error") <=> (p.t # "array" \/ bad # {})
         /\ p.t # "array" =>
              z.error = ValidationError("patterns must be an array of strings", -1, "")
         /\ (p.t = "array" /\ bad # {}) =>
              \E i \in bad :
                /\ \A j \in bad : i <= j
                /\ z.error.index = i - 1
                /\ z.error.kind = (IF p.items[i].t = "string"
                                   THEN "must be a non-empty string"
                                   ELSE "must be a string")
                /\ z.error.got = (IF p.items[i].t = "string" THEN "" ELSE p.items[i].t)

\* C10 witness: a build has failed on an array whose two elements are both
\* defective, in different categories.
C10_Witness ==
  \E c \in SeqCalls :
    LET z == zipCall[c]
    IN /\ z.pc = "failed"
       /\ z.patterns.t = "array"
       /\ Len(z.patterns.items) = 2
       /\ Defective(z.patterns.items[1])
       /\ Defective(z.patterns.items[2])
       /\ z.patterns.items[1].t # z.patterns.items[2].t
       /\ z.error.index = 0

\* the error kinds of the core, and the generic Error
CoreErrorNames ==
  {"FileNotFoundError", "PermissionError", "InvalidArchiveError", "OverwriteError",
   "CompressionError"}

\* whether a patterns argument is malformed: no array, or an array with a
\* non-string or blank element
Malformed(p) == p.t # "array" \/ \E i \in 1..Len(p.items) : Defective(p.items[i])

\* C11: Validation error kind.  A build called with a malformed patterns
\* argument has failed with an error of a kind of its own: neither one of
\* the other kinds of the core nor a generic Error.
C11_ValidationErrorKind ==
  \A c \in SeqCalls :
    LET z == zipCall[c]
    IN (z.pc # "idle" /\ Malformed(z.patterns)) =>
         /\ z.pc = "failed"
         /\ z.error.name \notin CoreErrorNames \cup {"Error"}

\* whether the patterns of a build match nothing that is not ignored
CollectsNothing(z, f) ==
  /\ ~Malformed(z.patterns)
  /\ \A i \in 1..Len(z.patterns.items) :
       \A p \in DOMAIN f :
         Matches(z.patterns.items[i].s, Relative(z.baseDir, p)) =>
           \E k \in 1..Len(z.ignore) : Matches(z.ignore[k], Relative(z.baseDir, p))

Ignored(z, rel) ==
  \/ \E k \in 1..Len(defaultIgnores) : Matches(defaultIgnores[k], rel)
  \/ \E k \in 1..Len(z.ignore) : Matches(z.ignore[k], rel)

\* C13: Ignore precedence.  No entry a build has collected or put in its
\* archive, and no key of its payload, is a path a default or a
\* caller-supplied ignore pattern matches.
C13_IgnorePrecedence ==
  \A c \in SeqCalls :
    LET z == zipCall[c]
    IN z.pc # "idle" =>
         /\ \A k \in 1..Len(z.files) : ~Ignored(z, z.files[k].path)
         /\ \A k \in 1..Len(z.result.files) : ~Ignored(z, z.result.files[k].path)
         /\ \A k \in 1..Len(z.fileContents) : ~Ignored(z, z.fileContents[k].key)

\* C13 witness: a build has returned an archive with entries although an
\* inclusion pattern matched a path that a default ignore matches and a
\* path that the caller's ignore matches.
C13_Witness ==
  \E c \in SeqCalls :
    LET z == zipCall[c]
        included == AllFiles(fs, z.patterns.items, z.baseDir, <<>>)
    IN /\ z.pc = "done"
       /\ Len(z.result.files) >= 1
       /\ Under(SrcDir, NameTmp) \in included
       /\ Under(SrcDir, NameDB) \in included
       /\ z.ignore = defaultIgnores \o <<PatInD>>

\* the paths of a list of entries
PathsOf(files) == [k \in 1..Len(files) |-> files[k].path]

\* C14: Determinism.  Two builds with the same patterns, ignore list and
\* baseDir on an unchanged filesystem return archives whose meta.files have
\* the same length and the same path at every position.
C14_Determinism ==
  \A c, d \in CallIds :
    (/\ zipCall[c].pc = "done" /\ zipCall[d].pc = "done"
     /\ zipCall[c].patterns = zipCall[d].patterns
     /\ zipCall[c].ignore = zipCall[d].ignore
     /\ zipCall[c].baseDir = zipCall[d].baseDir) =>
      /\ Len(zipCall[c].result.files) = Len(zipCall[d].result.files)
      /\ PathsOf(zipCall[c].result.files) = PathsOf(zipCall[d].result.files)

\* C14 witness: two builds have both returned an archive of three or more
\* entries.
C14_Witness ==
  /\ \A c \in CallIds : zipCall[c].pc = "done"
  /\ \E c, d \in CallIds : c # d /\ Len(zipCall[c].result.files) >= 3

\* whether the build could read the collected entry (a directory is not
\* read)
ReadOk(z, f, e) == readFileContent(f, ReadPath(z.baseDir, e.path)).ok

\* the collected entries a build keeps: the directories and the files it
\* could read, in collection order
KeptEntries(z, f) ==
  LET Kept(e) == e.isDirectory \/ ReadOk(z, f, e)
  IN SelectSeq(z.files, Kept)

\* the payload map the blob of an archive decodes to
DecodedPayload(blob) == JSONParse(Decompress(blob).value).members

\* C15: Per-file read failure is recovered locally.  A build that collected
\* entries fails for no read failure; after its loop its entries are the
\* collected directories and the collected files it could read, in
\* collection order, a file it could not read has no key in the payload, and
\* the archive it returns holds these entries and this payload.
C15_ReadFailureRecovered ==
  \A c \in SeqCalls :
    LET z == zipCall[c]
    IN Len(z.files) >= 1 =>
         /\ z.pc = "failed" => z.error = CallbackFault
         /\ z.pc \in {"final", "compress", "done"} =>
              /\ z.fileEntries = KeptEntries(z, fs)
              /\ \A k \in 1..Len(z.files) :
                   ~z.files[k].isDirectory =>
                     (ObjHas(z.fileContents, z.files[k].path) <=> ReadOk(z, fs, z.files[k]))
         /\ z.pc = "done" =>
              /\ z.result.files = KeptEntries(z, fs)
              /\ DecodedPayload(z.result.blob) = z.fileContents

\* C15 witness: a build has returned an archive of two or more entries
\* although the read of a collected file failed.
C15_Witness ==
  \E c \in SeqCalls :
    LET z == zipCall[c]
    IN /\ z.pc = "done"
       /\ Len(z.result.files) >= 2
       /\ \E k \in 1..Len(z.files) :
            ~z.files[k].isDirectory /\ ~ReadOk(z, fs, z.files[k])

\* the number of non-directory entries and the sum of their sizes
FileEntryCount(files) == Cardinality({k \in 1..Len(files) : ~files[k].isDirectory})

RECURSIVE FileEntrySizes(_)
FileEntrySizes(files) ==
  IF files = <<>> THEN 0
  ELSE FileEntrySizes(SubSeq(files, 1, Len(files) - 1))
         + (IF files[Len(files)].isDirectory THEN 0 ELSE files[Len(files)].size)

\* C17: Archive totals invariant.  At every step of a build its fileCount is
\* the number of non-directory entries it has entered and its totalSize the
\* sum of their sizes, and the archive it returns carries these totals for
\* its meta.files.
C17_ArchiveTotals ==
  \A c \in SeqCalls :
    LET z == zipCall[c]
    IN /\ z.fileCount = FileEntryCount(z.fileEntries)
       /\ z.totalSize = FileEntrySizes(z.fileEntries)
       /\ z.pc = "done" =>
            /\ z.result.fileCount = FileEntryCount(z.result.files)
            /\ z.result.totalSize = FileEntrySizes(z.result.files)

\* C17 witness: a build has returned an archive with a directory entry and a
\* file entry of a size above zero, after the read of a collected file
\* failed.
C17_Witness ==
  \E c \in SeqCalls :
    LET z == zipCall[c]
    IN /\ z.pc = "done"
       /\ \E k \in 1..Len(z.result.files) : z.result.files[k].isDirectory
       /\ z.result.totalSize > 0
       /\ \E k \in 1..Len(z.files) :
            ~z.files[k].isDirectory /\ ~ReadOk(z, fs, z.files[k])

\* round(n / d) for n >= 0 and d > 0, halves upwards
Round(n, d) == (2 * n + d) \div (2 * d)

\* whether the percentage of a report is the rounded share of the files
\* processed, 0 when there is no file
PercentageRounded(e) ==
  IF e.totalFiles = 0 THEN NumEq(e.percentage, 0)
  ELSE /\ e.percentage.num % e.percentage.den = 0
       /\ NumEq(e.percentage, Round(e.processedFiles * 100, e.totalFiles))
       /\ e.percentage.num >= 0
       /\ e.percentage.num <= 100 * e.percentage.den

\* C18: Percentage definition.  The percentage of every report of a build or
\* an extract is an integer in 0..100, round(processedFiles / totalFiles *
\* 100), and 0 when totalFiles is 0.
C18_PercentageDefinition ==
  \A c \in SeqCalls :
    /\ \A k \in 1..Len(zipCall[c].events) : PercentageRounded(zipCall[c].events[k])
    /\ \A k \in 1..Len(unzipCall[c].events) : PercentageRounded(unzipCall[c].events[k])

\* the elements of a sequence
Range(s) == {s[k] : k \in 1..Len(s)}

\* entry k of the archive is a file entry whose path has no value in the
\* decoded payload map
MissingPayload(u, k) ==
  /\ ~u.data.files[k].isDirectory
  /\ ~ObjHas(u.fileContents.members, u.data.files[k].path)

\* entry k of the archive is a file entry with content in the payload map
WithPayload(u, k) ==
  /\ ~u.data.files[k].isDirectory
  /\ HasContent(u.fileContents, u.data.files[k].path)

\* the number of entries the loop of the extract has passed
Passed(u) == IF u.pc \in {"final", "done"} THEN Len(u.data.files) ELSE u.i - 1

C19_CodecInverse ==
  codecCall.op = "roundtrip" =>
    /\ codecCall.pc # "failed"
    /\ codecCall.pc = "done" => codecCall.output = codecCall.input

\* a text of RFC 4648 base64: characters of the standard alphabet in groups
\* of four, the last group padded with one or two '='
WellFormedBase64(s) ==
  /\ Len(s) % 4 = 0
  /\ \A i \in 1..Len(s) :
       \/ B64Val(s[i]) >= 0 /\ s[i] \notin {45, 95}
       \/ /\ s[i] = 61
          /\ i >= Len(s) - 1
          /\ \A j \in i..Len(s) : s[j] = 61

\* C20: Codec decode failure.  decompress fails with a CompressionError and
\* returns nothing for every text that is not well-formed base64 and for
\* every well-formed base64 text whose bytes are no gzip stream.
C20_DecodeFailure ==
  (codecCall.op = "decode" /\ codecCall.pc # "idle") =>
    ((~WellFormedBase64(codecCall.blob) \/ ~Gunzip(Base64Decode(codecCall.blob)).ok) =>
       /\ codecCall.pc = "failed"
       /\ codecCall.error.name = "CompressionError"
       /\ codecCall.output = <<>>)

\* C21: Documented default of overwrite.  An extract called without an
\* overwrite option behaves as overwrite=true: it does not fail with an
\* OverwriteError for a file that exists at a destination.
C21_OverwriteDefault ==
  \A c \in SeqCalls :
    LET u == unzipCall[c]
    IN (u.pc = "failed" /\ ~u.overwriteGiven) => u.error.name # "OverwriteError"

\* the entries a build with these arguments collects when it runs alone
CollectedAlone(z, f) == collectFiles(f, z.patterns, z.baseDir, z.ignore, "ascending").files

\* the archive is the one a build returns that ran alone: the entries it
\* kept of those it collected, their totals, and a payload with the bytes of
\* every file entry and nothing else
ArchiveOfAlone(z, f) ==
  LET alone == CollectedAlone(z, f)
      payload == DecodedPayload(z.result.blob)
      files == z.result.files
  IN IF alone = <<>> THEN z.result = createEmptyArchive
     ELSE /\ z.files = alone
          /\ files = KeptEntries(z, f)
          /\ z.result.fileCount = FileEntryCount(files)
          /\ z.result.totalSize = FileEntrySizes(files)
          /\ Len(payload) = FileEntryCount(files)
          /\ \A k \in 1..Len(files) :
               ~files[k].isDirectory =>
                 /\ ObjHas(payload, files[k].path)
                 /\ Base64Decode(ObjGet(payload, files[k].path))
                      = readFileContent(f, ReadPath(z.baseDir, files[k].path)).data

\* C22: Call independence.  Of two builds whose steps interleave on an
\* unchanged filesystem, each returns the archive it returns when it runs
\* alone, and no build fails.
C22_CallIndependence ==
  \A c \in CallIds :
    /\ zipCall[c].pc # "failed"
    /\ zipCall[c].pc = "done" => ArchiveOfAlone(zipCall[c], fs)

\* C22 witness: one build has returned an archive of two or more entries
\* while the other is in the middle of its loop over the files.
C22_Witness ==
  \E c, d \in CallIds :
    /\ zipCall[c].pc = "done"
    /\ Len(zipCall[c].result.files) >= 2
    /\ zipCall[d].pc = "loop"
    /\ zipCall[d].i >= 2

\* the extract could not set the mode of the file it wrote for entry k
ChmodRefused(u, f, k) ==
  LET out == joinPath(u.outputDir, u.data.files[k].path)
  IN /\ u.preservePermissions
     /\ WithPayload(u, k)
     /\ out \in DOMAIN f
     /\ ~setFilePermissions(f, out, u.data.files[k].mode).ok

\* C23: Permission restoration is best-effort.  No extract fails with the
\* error of a refused chmod; a file entry the loop has passed whose mode
\* could not be set has its bytes on disk and its destination in the list of
\* extracted paths, processedFiles counts it, and a finished extract returns
\* the destination of every file entry with content.
C23_PermissionBestEffort ==
  \A c \in SeqCalls :
    LET u == unzipCall[c]
        Out(k) == joinPath(u.outputDir, u.data.files[k].path)
    IN /\ u.pc = "failed" => u.error.kind # "EPERM"
       /\ (u.fileContents.kind = "object" /\ u.pc \in {"entry", "write", "perm", "final", "done"}) =>
            /\ \A k \in 1..Passed(u) :
                 ChmodRefused(u, fs, k) =>
                   /\ fs[Out(k)].data = Base64Decode(ObjGet(u.fileContents.members,
                                                             u.data.files[k].path))
                   /\ Out(k) \in Range(u.extractedFiles)
            /\ Len(u.extractedFiles) - u.processedFiles
                 = Cardinality({k \in 1..Passed(u) : u.data.files[k].isDirectory})
            /\ u.pc = "done" =>
                 \A k \in 1..Len(u.data.files) :
                   WithPayload(u, k) => Out(k) \in Range(u.result)

\* C23 witness: an extract with preservePermissions has finished; the mode
\* of a file it wrote could not be set, and the destination of a later file
\* entry is in the list it returned.
C23_Witness ==
  \E c \in SeqCalls :
    LET u == unzipCall[c]
    IN /\ u.pc = "done"
       /\ u.fileContents.kind = "object"
       /\ \E k \in 1..Len(u.data.files), l \in 1..Len(u.data.files) :
            /\ k < l
            /\ ChmodRefused(u, fs, k)
            /\ WithPayload(u, l)
            /\ joinPath(u.outputDir, u.data.files[l].path) \in Range(u.result)

\* the destinations of the entries an extract creates or writes, in the
\* order of meta.files: the directory entries and the file entries with
\* content
ExpectedResult(u) ==
  LET indices == [k \in 1..Len(u.data.files) |-> k]
      Done(k) == u.data.files[k].isDirectory \/ WithPayload(u, k)
      kept == SelectSeq(indices, Done)
  IN [j \in 1..Len(kept) |-> joinPath(u.outputDir, u.data.files[kept[j]].path)]

\* C24: Extract result order.  A finished extract of an archive with a
\* payload returns the destinations of the directory entries and of the file
\* entries with content, once per entry and in the order of meta.files, and
\* every path it returns is on disk.
C24_ExtractResultOrder ==
  \A c \in SeqCalls :
    LET u == unzipCall[c]
    IN (u.pc = "done" /\ u.data.blob # <<>>) =>
         /\ u.result = ExpectedResult(u)
         /\ \A j \in 1..Len(u.result) : u.result[j] \in DOMAIN fs

\* C24 witness: a finished extract has returned two or more paths, one of
\* them of a directory entry, and has skipped an entry without content.
C24_Witness ==
  \E c \in SeqCalls :
    LET u == unzipCall[c]
    IN /\ u.pc = "done"
       /\ u.data.blob # <<>>
       /\ Len(u.result) >= 2
       /\ \E k \in 1..Len(u.data.files) : u.data.files[k].isDirectory
       /\ \E k \in 1..Len(u.data.files) : MissingPayload(u, k)

\* the absolute resolved path of a collected entry
AbsolutePath(z, e) == ReadPath(z.baseDir, e.path)

\* the build has collected entries
HasCollected(z) == z.pc \in {"loop", "final", "compress", "done", "failed"} /\ z.files # <<>>

\* C25: Collection order and deduplication.  The entries a build collected
\* are in strictly increasing order of their absolute resolved paths, so no
\* path is there twice, and a build in which no read failed returns them as
\* meta.files in that order.
C25_CollectionOrder ==
  \A c \in SeqCalls :
    LET z == zipCall[c]
    IN HasCollected(z) =>
         /\ \A k \in 1..(Len(z.files) - 1) :
              LexLess(AbsolutePath(z, z.files[k]), AbsolutePath(z, z.files[k + 1]))
         /\ (z.pc = "done" /\ z.files = KeptEntries(z, fs)) => z.result.files = z.files

\* C25 witness: a build of two patterns that match the same file has
\* returned an archive of three or more entries.
C25_Witness ==
  \E c \in SeqCalls :
    LET z == zipCall[c]
    IN /\ z.pc = "done"
       /\ Len(z.result.files) >= 3
       /\ Len(z.patterns.items) = 2
       /\ Glob(fs, z.patterns.items[1].s, Normalize(z.baseDir), z.ignore)
            \cap Glob(fs, z.patterns.items[2].s, Normalize(z.baseDir), z.ignore) # {}

\* C26: Empty payload short-circuit.  An extract of a structurally valid
\* archive whose blob is the empty string has returned the empty list; it
\* has changed nothing on disk, made no directory, written no file and
\* reported no progress, whatever meta.files lists.
C26_EmptyPayloadShortCircuit ==
  \A c \in SeqCalls :
    LET u == unzipCall[c]
    IN (u.pc # "idle" /\ StructurallyValid(u.data) /\ u.data.blob = <<>>) =>
         /\ u.pc = "done"
         /\ u.result = <<>>
         /\ fs = u.before
         /\ u.log = <<>>
         /\ u.events = <<>>

\* C26 witness: an extract with a callback and overwrite=false of an archive
\* with an empty blob, whose entries are a directory and a file that exist
\* in the output directory, has returned.
C26_Witness ==
  \E c \in SeqCalls :
    LET u == unzipCall[c]
    IN /\ u.pc = "done"
       /\ u.data.blob = <<>>
       /\ u.cb.present
       /\ ~u.overwrite
       /\ \E k \in 1..Len(u.data.files) : u.data.files[k].isDirectory
       /\ \E k \in 1..Len(u.data.files) :
            /\ ~u.data.files[k].isDirectory
            /\ fileExists(fs, joinPath(u.outputDir, u.data.files[k].path))

\* the files of f
FilesOf(f) == {p \in DOMAIN f : IsFile(f, p)}

\* C27: No clobbering with overwrite=false.  At every step of an extract
\* with overwrite=false, and after it has returned or failed, every file
\* that was on disk before the call is a file with the same content.
C27_NoClobbering ==
  \A c \in SeqCalls :
    LET u == unzipCall[c]
    IN (u.pc # "idle" /\ ~u.overwrite) =>
         \A p \in FilesOf(u.before) : IsFile(fs, p) /\ fs[p].data = u.before[p].data

\* C27 witness: an extract with overwrite=false has written a file and then
\* failed with OverwriteError at an entry whose destination was a file
\* before the call.
C27_Witness ==
  \E c \in SeqCalls :
    LET u == unzipCall[c]
    IN /\ u.pc = "failed"
       /\ ~u.overwrite
       /\ u.error.name = "OverwriteError"
       /\ u.error.path \in FilesOf(u.before)
       /\ \E j \in 1..Len(u.log) : u.log[j].op = "write"

\* C27 second witness: an extract with overwrite=false of an archive that
\* lists a path twice has written the file and failed at the second entry.
C27_WitnessTwice ==
  \E c \in SeqCalls :
    LET u == unzipCall[c]
    IN /\ u.pc = "failed"
       /\ ~u.overwrite
       /\ u.error.name = "OverwriteError"
       /\ \E j \in 1..Len(u.log) : u.log[j].op = "write" /\ u.log[j].path = u.error.path

\* the paths an extract has written files to
WrittenFiles(u) == {u.log[j].path : j \in {i \in 1..Len(u.log) : u.log[i].op = "write"}}

\* C28: Concurrent extracts with overwrite=false.  Of two interleaved
\* extracts of the same archive into the same directory, both with
\* overwrite=false, no destination file is written by both.
C28_ConcurrentExtracts ==
  \A c, d \in CallIds :
    (c # d /\ ~unzipCall[c].overwrite /\ ~unzipCall[d].overwrite) =>
      WrittenFiles(unzipCall[c]) \cap WrittenFiles(unzipCall[d]) = {}

\* the last report a call has delivered
LastEvent(events) == events[Len(events)]

\* the number of files an extract has written
WriteCount(u) == Cardinality({j \in 1..Len(u.log) : u.log[j].op = "write"})

\* C29: Final progress agrees with the result.  The last report of a build
\* that returned an archive carries the archive's fileCount as processedFiles
\* and its totalSize as processedBytes; the last report of an extract that
\* returned carries the number of files it wrote as processedFiles.
C29_FinalProgressAgrees ==
  \A c \in SeqCalls :
    LET z == zipCall[c]
        u == unzipCall[c]
    IN /\ (z.pc = "done" /\ z.cb.present /\ z.events # <<>>) =>
            /\ LastEvent(z.events).processedFiles = z.result.fileCount
            /\ LastEvent(z.events).processedBytes = z.result.totalSize
       /\ (u.pc = "done" /\ u.cb.present /\ u.events # <<>>) =>
            LastEvent(u.events).processedFiles = WriteCount(u)

\* nothing lies below dir
EmptyDir(f, dir) == \A p \in DOMAIN f : ~StartsWith(p, dir \o Slash)

\* C30: Self-consistency of built archives.  An extract of an archive that a
\* build returned, into an empty output directory and with overwrite=false,
\* does not fail with OverwriteError.
C30_BuiltArchiveSelfConsistent ==
  \A c \in SeqCalls :
    LET u == unzipCall[c]
    IN (u.origin.built /\ ~u.overwrite /\ EmptyDir(u.before, u.outputDir) /\ u.pc = "failed") =>
         u.error.name # "OverwriteError"

====
